---------------------------- MODULE Spec2Model ----------------------------
(***************************************************************************)
(* A model of AgenticRealtyAnalyzer:                                       *)
(*   - crime_impact.py: haversine_distance, calculate_crime_impact,        *)
(*     get_crime_category and the scoring loop of update_listing_analysis  *)
(*     (specification SpecImpact); get_crime_coverage_areas and            *)
(*     get_properties_in_crime_areas (SpecCoverage); the whole of          *)
(*     update_listing_analysis (SpecListing);                              *)
(*   - crimeareaclusterer.py: process_crime_data and its nested            *)
(*     cluster_and_merge (SpecCluster, and SpecClusterNaN for frames with  *)
(*     rows that lack coordinates); save_to_sqlite (SpecSave);             *)
(*   - update_listing_analysis run more than once (SpecRerun);             *)
(*   - crimedataingest.py: main and process_file (SpecIngest);             *)
(*   - crimedataanalyzer.py: process_statistical_crime_clusters            *)
(*     (SpecAnalyzer);                                                     *)
(*   - listingmarketexceptionality.py: run_analysis (SpecMarket, and       *)
(*     SpecMarketFair, in which a started request comes to an end);        *)
(*   - top_picks.py: update_top_picks, with update_assessment of           *)
(*     refinemarketassessments.py between two runs (SpecPicks).            *)
(*                                                                         *)
(* Numbers.  Python floats are modelled by exact rationals [n, d] in       *)
(* lowest terms with d > 0.  An area is stored as its rational multiple of *)
(* pi and a density as its rational multiple of 1/pi, so that a ratio of   *)
(* two densities is a plain rational, as in the code where np.pi cancels.  *)
(* Rounding of IEEE doubles is not modelled.                               *)
(***************************************************************************)
EXTENDS Integers, Sequences, FiniteSets, Bags, TLC

VARIABLES
    \* ---- crime_impact.py ----
    crime_data,      \* table crime_data: a bag of rows
    crimes_df,       \* the frame loaded at crime_impact.py:249
    properties_df,   \* the candidate listings, crime_impact.py:241
    scores,          \* crime_impact.py:261
    analyses,        \* crime_impact.py:262
    crime_impact,    \* column properties_df['crime_impact'], crime_impact.py:277
    pc,              \* position of update_listing_analysis
    crime_areas,     \* the coverage areas, crime_impact.py:235
    listing_analysis, \* table listing_analysis: address -> row
    update_idx,      \* how many rows the loop at crime_impact.py:284 has taken
    runs,            \* how many times update_listing_analysis was started
    \* ---- crimeareaclusterer.py ----
    crime_data_df,   \* the argument of process_crime_data: a sequence of rows
    utm_crs,         \* crimeareaclusterer.py:62
    group_idx,       \* how many groups of `grouped` the loop at :113 has taken
    geo_dfs,         \* crimeareaclusterer.py:111
    clustered_gdf,   \* the frame process_crime_data returns
    cpc,             \* position of process_crime_data
    gdf,             \* the argument of save_to_sqlite
    save_idx,        \* how many rows the loop at crimeareaclusterer.py:168 has taken
    crime_areas_tbl, \* table crime_areas: the rows in insertion order
    spc,             \* position of save_to_sqlite
    csv_files,       \* process_all_files: the clustered frame of each CSV file
    file_idx,        \* which file the loop at crimeareaclusterer.py:239 is at
    \* ---- crimedataingest.py ----
    ingest_files,    \* main: the CSV files of the data folder
    ingest_idx,      \* how many files the loop at crimedataingest.py:245 has taken
    validated_df,    \* process_file: the validated frame of the file at hand
    batch_start,     \* how many rows of validated_df the batch loop has inserted
    ingest_errors,   \* the files whose processing ended in the except clause
    ipc,             \* position of crimedataingest.main
    \* ---- crimedataanalyzer.py ----
    analysis_df,     \* the argument df of process_statistical_crime_clusters
    clusters_info,   \* crimedataanalyzer.py:346
    cluster_idx,     \* how many clusters the loop at crimedataanalyzer.py:361 has taken
    llm_replies,     \* what get_crime_analysis returned for each cluster taken
    llm_responses,   \* table llm_responses: the rows in insertion order
    crime_analysis,  \* table crime_analysis: the rows in insertion order
    apc,             \* position of process_statistical_crime_clusters
    \* ---- listingmarketexceptionality.py ----
    market_listings, \* run_analysis: the frame get_all_listings returned
    market_idx,      \* how many listings the loop at listingmarketexceptionality.py:273 has taken
    attempt_log,     \* call_ollama: the outcomes of the requests for the listing at hand
    listing_log,     \* what happened to each listing taken: its requests and its assessment
    mpc,             \* position of run_analysis
    \* ---- top_picks.py ----
    picks_df,        \* update_top_picks: the rows selected for analysis
    pick_idx,        \* how many rows the loop at top_picks.py:231 has taken
    pick_log,        \* what the LLM request of each row taken gave
    pick_runs,       \* how many times update_top_picks was started
    tpc              \* position of update_top_picks

listingVars == <<crime_areas, listing_analysis, update_idx, runs>>

impactVars == <<crime_data, crimes_df, properties_df, scores, analyses,
                crime_impact, pc, listingVars>>

filesVars == <<csv_files, file_idx>>

ingestVars == <<ingest_files, ingest_idx, validated_df, batch_start,
                ingest_errors, ipc>>

\* The variables of the other scripts of the pipeline.
analyzerVars == <<analysis_df, clusters_info, cluster_idx, llm_replies,
                  llm_responses, crime_analysis, apc>>

marketVars == <<market_listings, market_idx, attempt_log, listing_log, mpc>>

picksVars == <<picks_df, pick_idx, pick_log, pick_runs, tpc>>

pipelineVars == <<ingestVars, analyzerVars, marketVars, picksVars>>

saveVars == <<gdf, save_idx, crime_areas_tbl, spc, filesVars, pipelineVars>>

clusterVars == <<crime_data_df, utm_crs, group_idx, geo_dfs, clustered_gdf, cpc,
                 saveVars>>

vars == <<crime_data, crimes_df, properties_df, scores, analyses,
          crime_impact, pc, crime_areas, listing_analysis, update_idx, runs,
          crime_data_df, utm_crs, group_idx, geo_dfs, clustered_gdf, cpc,
          gdf, save_idx, crime_areas_tbl, spc, csv_files, file_idx,
          ingest_files, ingest_idx, validated_df, batch_start, ingest_errors,
          ipc, analysis_df, clusters_info, cluster_idx, llm_replies,
          llm_responses, crime_analysis, apc,
          market_listings, market_idx, attempt_log, listing_log, mpc,
          picks_df, pick_idx, pick_log, pick_runs, tpc>>

-----------------------------------------------------------------------------
(* Exact rational arithmetic standing in for float arithmetic.             *)

Abs(x) == IF x < 0 THEN -x ELSE x

SetMin(S) == CHOOSE x \in S : \A y \in S : x <= y
SetMax(S) == CHOOSE x \in S : \A y \in S : x >= y

RECURSIVE GCD(_, _)
GCD(a, b) == IF b = 0 THEN a ELSE GCD(b, a % b)

\* n/d in lowest terms with a positive denominator (d # 0).
Rat(n, d) ==
    LET g == GCD(Abs(n), Abs(d))
        s == IF d < 0 THEN -1 ELSE 1
    IN  [n |-> (s * n) \div g, d |-> (s * d) \div g]

RatInt(k)    == [n |-> k, d |-> 1]
RatMul(a, b) == Rat(a.n * b.n, a.d * b.d)
RatDiv(a, b) == Rat(a.n * b.d, a.d * b.n)
RatLt(a, b)  == a.n * b.d < b.n * a.d
RatLe(a, b)  == a.n * b.d <= b.n * a.d
RatGt(a, b)  == RatLt(b, a)
RatGe(a, b)  == RatLe(b, a)

-----------------------------------------------------------------------------
(* Inputs.  Coordinates lie on one meridian (longitude 0); a latitude is   *)
(* given as the arc length from the origin in 1/UnitsPerMile miles.  On a  *)
(* meridian dlon = 0, so haversine's a = sin(dlat/2)^2 and                  *)
(* c = 2*atan2(sqrt(a), sqrt(1-a)) = |dlat|: the distance is R*|dlat|, the *)
(* arc length between the two points.                                      *)

UnitsPerMile == 20

Categories == {"BURGLARY", "ARSON"}

\* Latitudes of stored incidents, and how many incidents of a category a
\* batch may hold at a latitude.  The counts make every score, the cut points
\* 0.75 = 64*3/256 and 1.5 = 64*3/128, and the scenario 1-of-10 occur.
CrimeLats == {0, 6, 40, 41}

CountChoices(crime_type, lat) ==
    CASE lat = 0  -> {0, 1, 3}
      [] lat = 6  -> IF crime_type = "BURGLARY" THEN {0, 9} ELSE {0}
      [] lat = 40 -> IF crime_type = "BURGLARY" THEN {0, 42, 125, 253} ELSE {0, 125}
      [] OTHER    -> {0, 1}

PropertyLats == {0, 1}

MaxProperties == 2

CrimeRows == [crime_type : Categories, latitude : CrimeLats, longitude : {0}]

\* The incidents of one category: how many at each latitude.
Profiles(crime_type) ==
    {p \in [CrimeLats -> {0, 1, 3, 9, 42, 125, 253}] :
        \A lat \in CrimeLats : p[lat] \in CountChoices(crime_type, lat)}

\* A frame of incidents: a bag of rows (a row may occur several times).
FrameOf(t) ==
    [r \in {x \in CrimeRows : t[x.crime_type][x.latitude] > 0} |->
        t[r.crime_type][r.latitude]]

CrimeFrames ==
    {FrameOf(t) : t \in {u \in [Categories -> UNION {Profiles(c) : c \in Categories}] :
                            \A c \in Categories : u[c] \in Profiles(c)}}

\* SQL NULL in a coordinate column.
NULL == -999999

\* Column crime_date is kept as the age of the incident, in days before the
\* day of the run.
OneYearDays == 365

\* The rows of a frame as rows of table crime_data, dated a month ago.
Dated(f) ==
    [r \in {[crime_type |-> x.crime_type, latitude |-> x.latitude,
              longitude |-> x.longitude, crime_date |-> 30] : x \in DOMAIN f} |->
        f[[crime_type |-> r.crime_type, latitude |-> r.latitude,
           longitude |-> r.longitude]]]

CrimeTables == {Dated(f) : f \in CrimeFrames}

PropertyRows == [latitude : PropertyLats, longitude : {0}]

PropertyFrames ==
    UNION {[1..k -> PropertyRows] : k \in 1..MaxProperties}

-----------------------------------------------------------------------------
(* crime_impact.py                                                         *)

IMMEDIATE_AREA_MILES == [n |-> 1, d |-> 4]
GENERAL_AREA_MILES   == [n |-> 2, d |-> 1]

\* Distance in miles between two points of the meridian.
haversine_distance(lat1, lon1, lat2, lon2) ==
    Rat(Abs(lat2 - lat1), UnitsPerMile)

\* df[mask]: the rows of the bag df that lie in mask, with their counts.
Filter(df, mask) == [r \in mask |-> df[r]]

\* How many rows of the bag df are among `rows`.
RECURSIVE SumCounts(_, _)
SumCounts(df, rows) ==
    IF rows = {} THEN 0
    ELSE LET r == CHOOSE x \in rows : TRUE
         IN  df[r] + SumCounts(df, rows \ {r})

\* WHERE crime_date >= date('now', '-1 year') AND latitude IS NOT NULL AND
\* longitude IS NOT NULL (crime_impact.py:151-153 and :253-255)
recent_located(table) ==
    {r \in DOMAIN table : /\ r.crime_date <= OneYearDays
                          /\ r.latitude # NULL
                          /\ r.longitude # NULL}

\* SELECT crime_type, latitude, longitude FROM crime_data WHERE ...
\* (crime_impact.py:250-256): the frame of the selected rows.
select_crimes(table) ==
    LET kept == recent_located(table)
        columns(r) == [crime_type |-> r.crime_type, latitude |-> r.latitude,
                       longitude |-> r.longitude]
    IN  [x \in {columns(r) : r \in kept} |->
            SumCounts(table, {r \in kept : columns(r) = x})]

\* len(df)
Len_df(df) == BagCardinality(df)

\* df.empty
IsEmpty(df) == DOMAIN df = {}

immediate_crimes(property_lat, property_lon, df) ==
    LET distances(r) == haversine_distance(property_lat, property_lon,
                                           r.latitude, r.longitude)
        immediate_mask == {r \in DOMAIN df : RatLe(distances(r), IMMEDIATE_AREA_MILES)}
    IN  Filter(df, immediate_mask)

\* Mutant: the general mask taken as the ring outside the immediate radius.
general_crimes_ring(property_lat, property_lon, df) ==
    LET distances(r) == haversine_distance(property_lat, property_lon,
                                           r.latitude, r.longitude)
        general_mask == {r \in DOMAIN df :
                            /\ RatLe(distances(r), GENERAL_AREA_MILES)
                            /\ ~RatLe(distances(r), IMMEDIATE_AREA_MILES)}
    IN  Filter(df, general_mask)

\* Mutant: the general mask with a strict comparison.
general_crimes_strict(property_lat, property_lon, df) ==
    LET distances(r) == haversine_distance(property_lat, property_lon,
                                           r.latitude, r.longitude)
        general_mask == {r \in DOMAIN df : RatLt(distances(r), GENERAL_AREA_MILES)}
    IN  Filter(df, general_mask)

general_crimes(property_lat, property_lon, df) ==
    LET distances(r) == haversine_distance(property_lat, property_lon,
                                           r.latitude, r.longitude)
        general_mask == {r \in DOMAIN df : RatLe(distances(r), GENERAL_AREA_MILES)}
    IN  Filter(df, general_mask)

\* np.pi * r**2, as the multiple of pi
\* Mutant: the radius not squared.
general_area_linear == GENERAL_AREA_MILES

immediate_area == RatMul(IMMEDIATE_AREA_MILES, IMMEDIATE_AREA_MILES)
general_area   == RatMul(GENERAL_AREA_MILES, GENERAL_AREA_MILES)

\* Mutant: the distinct crime types counted instead of the rows.
density_types(df, area) ==
    RatDiv(RatInt(Cardinality({r.crime_type : r \in DOMAIN df})), area)

\* len(df) / area if not df.empty else 0, crime_impact.py:76-77
density(df, area) ==
    IF ~IsEmpty(df) THEN RatDiv(RatInt(Len_df(df)), area) ELSE RatInt(0)

\* df[df['crime_type'] == crime_type].shape[0]
TypeCount(df, crime_type) ==
    Len_df(Filter(df, {r \in DOMAIN df : r.crime_type = crime_type}))

\* The cut point of a "significant cluster", crime_impact.py:110
ClusterCut == [n |-> 3, d |-> 2]

\* Mutant: a category is recorded from relative density 1.5 on.
crime_clusters_inclusive(imm, gen) ==
    LET types == {r.crime_type : r \in DOMAIN imm}
        rel(t) == RatDiv(RatDiv(RatInt(TypeCount(imm, t)), immediate_area),
                         RatDiv(RatInt(TypeCount(gen, t)), general_area))
        kept == {t \in types : TypeCount(gen, t) > 0 /\ RatGe(rel(t), ClusterCut)}
    IN  [t \in kept |-> rel(t)]

\* The dictionary crime_types built at crime_impact.py:100-111.
crime_clusters(imm, gen) ==
    LET types == {r.crime_type : r \in DOMAIN imm}
        immediate_type_density(t) == RatDiv(RatInt(TypeCount(imm, t)), immediate_area)
        general_type_density(t)   == RatDiv(RatInt(TypeCount(gen, t)), general_area)
        relative_type_density(t)  == RatDiv(immediate_type_density(t),
                                            general_type_density(t))
        kept == {t \in types :
                    /\ RatGt(general_type_density(t), RatInt(0))
                    /\ RatGt(relative_type_density(t), ClusterCut)}
    IN  [t \in kept |-> relative_type_density(t)]

LowCut  == [n |-> 3, d |-> 4]
HighCut == [n |-> 3, d |-> 2]

\* Mutant: the low cut point taken inclusive.
ScoreOf_inclusive(relative_density) ==
    IF RatLe(relative_density, LowCut) THEN RatInt(0)
    ELSE IF RatLt(relative_density, HighCut) THEN [n |-> 1, d |-> 2]
    ELSE RatInt(1)

\* Mutant: the scores of the low and the high band exchanged.
ScoreOf_reversed(relative_density) ==
    IF RatLt(relative_density, LowCut) THEN RatInt(1)
    ELSE IF RatLt(relative_density, HighCut) THEN [n |-> 1, d |-> 2]
    ELSE RatInt(0)

\* crime_impact.py:117-123
ScoreOf(relative_density) ==
    IF RatLt(relative_density, LowCut) THEN RatInt(0)
    ELSE IF RatLt(relative_density, HighCut) THEN [n |-> 1, d |-> 2]
    ELSE RatInt(1)

\* Mutant: the check of the general subset left out.
no_general_crimes_skipped(gen) == FALSE

\* len(general_crimes) == 0, crime_impact.py:67
no_general_crimes(gen) == Len_df(gen) = 0

\* calculate_crime_impact returns (relative_score, analysis_dict).
calculate_crime_impact(property_lat, property_lon, df) ==
    IF IsEmpty(df)
    THEN [score |-> RatInt(-1),
          analysis |-> [note |-> "Insufficient crime data for assessment"]]
    ELSE
    LET imm == immediate_crimes(property_lat, property_lon, df)
        gen == general_crimes(property_lat, property_lon, df)
    IN  IF no_general_crimes(gen)
        THEN [score |-> RatInt(-1),
              analysis |-> [note |-> "No crime data within assessment radius"]]
        ELSE
        LET immediate_density == density(imm, immediate_area)
            general_density   == density(gen, general_area)
            relative_density ==
                IF general_density = RatInt(0) THEN RatInt(0)
                ELSE RatDiv(immediate_density, general_density)
            base == [immediate_crimes  |-> Len_df(imm),
                     general_crimes    |-> Len_df(gen),
                     immediate_density |-> immediate_density,
                     general_density   |-> general_density,
                     relative_density  |-> relative_density]
            crime_types == IF ~IsEmpty(imm) THEN crime_clusters(imm, gen)
                           ELSE <<>>
            analysis == IF DOMAIN crime_types # {}
                        THEN base @@ [crime_clusters |-> crime_types]
                        ELSE base
        IN  [score |-> ScoreOf(relative_density), analysis |-> analysis]

\* Mutant: a negative score labelled as a low-crime result.
get_crime_category_low(score, all_scores) ==
    IF RatLe(score, RatInt(0)) THEN "Low Crime Impact"
    ELSE IF score = [n |-> 1, d |-> 2] THEN "Some Crime Impact"
    ELSE "High Crime Impact"

\* crime_impact.py:125-134
get_crime_category(score, all_scores) ==
    IF RatLt(score, RatInt(0)) THEN "Insufficient Data"
    ELSE IF score = RatInt(0) THEN "Low Crime Impact"
    ELSE IF score = [n |-> 1, d |-> 2] THEN "Some Crime Impact"
    ELSE "High Crime Impact"

\* Mutant: the frame narrowed in place to the general subset.
FrameAfterCall_inplace(property_lat, property_lon, df) ==
    general_crimes(property_lat, property_lon, df)

\* What the frame passed to calculate_crime_impact holds after the call:
\* boolean indexing (crime_impact.py:60-61) builds new frames, the argument
\* is only read.
FrameAfterCall(property_lat, property_lon, df) == df

-----------------------------------------------------------------------------
(* update_listing_analysis, from the load of the incidents on              *)

\* The state of a program that is not running.
FilesIdle == csv_files = <<>> /\ file_idx = 0

IngestIdle ==
    /\ ingest_files = <<>> /\ ingest_idx = 0 /\ validated_df = <<>>
    /\ batch_start = 0 /\ ingest_errors = {} /\ ipc = "idle"

AnalyzerIdle ==
    /\ analysis_df = <<>> /\ clusters_info = <<>> /\ cluster_idx = 0
    /\ llm_replies = <<>> /\ llm_responses = <<>> /\ crime_analysis = <<>>
    /\ apc = "idle"

MarketIdle ==
    /\ market_listings = <<>> /\ market_idx = 0 /\ attempt_log = <<>>
    /\ listing_log = <<>> /\ mpc = "idle"

PicksIdle ==
    /\ picks_df = <<>> /\ pick_idx = 0 /\ pick_log = <<>> /\ pick_runs = 0
    /\ tpc = "idle"

PipelineIdle == IngestIdle /\ AnalyzerIdle /\ MarketIdle /\ PicksIdle

ImpactIdle ==
    /\ crime_data = <<>> /\ crimes_df = <<>> /\ properties_df = <<>>
    /\ scores = <<>> /\ analyses = <<>> /\ crime_impact = <<>> /\ pc = "idle"
    /\ crime_areas = {} /\ listing_analysis = <<>> /\ update_idx = 0
    /\ runs = 0

ClusterIdle ==
    /\ crime_data_df = <<>> /\ utm_crs = -1 /\ group_idx = 0
    /\ geo_dfs = <<>> /\ clustered_gdf = <<>> /\ cpc = "idle"
    /\ gdf = <<>> /\ save_idx = 0 /\ crime_areas_tbl = <<>> /\ spc = "idle"
    /\ FilesIdle
    /\ PipelineIdle

InitImpact ==
    /\ ClusterIdle
    /\ crime_data \in CrimeTables
    /\ properties_df \in PropertyFrames
    /\ crimes_df = <<>>
    /\ scores = <<>>
    /\ analyses = <<>>
    /\ crime_impact = <<>>
    /\ pc = "load"
    /\ crime_areas = {}
    /\ listing_analysis = <<>>
    /\ update_idx = 0
    /\ runs = 1

\* crime_impact.py:249-255
LoadCrimes ==
    /\ pc = "load"
    /\ crimes_df' = select_crimes(crime_data)
    /\ pc' = "score"
    /\ UNCHANGED <<crime_data, properties_df, scores, analyses, crime_impact>>
    /\ UNCHANGED listingVars
    /\ UNCHANGED clusterVars

\* One iteration of the loop at crime_impact.py:263-270
ScoreProperty ==
    /\ pc = "score"
    /\ Len(scores) < Len(properties_df)
    /\ LET row == properties_df[Len(scores) + 1]
           res == calculate_crime_impact(row.latitude, row.longitude, crimes_df)
       IN  /\ scores' = Append(scores, res.score)
           /\ analyses' = Append(analyses, res.analysis)
           /\ crimes_df' = FrameAfterCall(row.latitude, row.longitude, crimes_df)
    /\ UNCHANGED <<crime_data, properties_df, crime_impact, pc>>
    /\ UNCHANGED listingVars
    /\ UNCHANGED clusterVars

\* crime_impact.py:277-280
Categorize ==
    /\ pc = "score"
    /\ Len(scores) = Len(properties_df)
    /\ crime_impact' = [i \in 1..Len(scores) |-> get_crime_category(scores[i], scores)]
    /\ pc' = "update"
    /\ UNCHANGED <<crime_data, crimes_df, properties_df, scores, analyses>>
    /\ UNCHANGED listingVars
    /\ UNCHANGED clusterVars

NextImpact == LoadCrimes \/ ScoreProperty \/ Categorize

SpecImpact == InitImpact /\ [][NextImpact]_vars

-----------------------------------------------------------------------------
(* crime_impact.py: coverage areas, candidate listings and the update of   *)
(* listing_analysis.                                                        *)
(*                                                                         *)
(* The coordinates of the tables are in the unit of the latitudes above,   *)
(* 1/UnitsPerMile miles of arc; a degree is R*pi/180 = 69.11 miles, which   *)
(* is UnitsPerDegree of these units.                                       *)

UnitsPerDegree == 1382

\* SQL NULL in column crime_impact.
NullText == "NULL"

\* CAST(n/d AS INT) for d > 0: the fraction is cut off, toward zero.
cast_int_floor(n, d) == n \div d

cast_int(n, d) == IF n >= 0 THEN n \div d ELSE -((-n) \div d)

\* The GROUP BY key of crime_impact.py:155-156 (ten times the key there).
group_key(r) ==
    <<cast_int(r.latitude * 10, UnitsPerDegree),
      cast_int(r.longitude * 10, UnitsPerDegree)>>

\* Mutant: HAVING crime_count > 9
MinCrimeCount_nine == 9

\* HAVING crime_count > 10
MinCrimeCount == 10

\* get_crime_coverage_areas: one row per group of more than 10 incidents; the
\* empty set stands for the None of an empty result.
get_crime_coverage_areas(table) ==
    LET kept == recent_located(table)
        group(g) == {r \in kept : group_key(r) = g}
        area(g) == [min_lat |-> SetMin({r.latitude : r \in group(g)}),
                    max_lat |-> SetMax({r.latitude : r \in group(g)}),
                    min_lon |-> SetMin({r.longitude : r \in group(g)}),
                    max_lon |-> SetMax({r.longitude : r \in group(g)}),
                    crime_count |-> SumCounts(table, group(g))]
    IN  {area(g) : g \in {h \in {group_key(r) : r \in kept} :
                            SumCounts(table, group(h)) > MinCrimeCount}}

\* The divisor of crime_impact.py:187, miles in a degree.
RoughMilesPerDegree == 69

\* Mutant: the boxes are not widened.
buffer_none == RatInt(0)

\* buffer = GENERAL_AREA_MILES / 69, a number of degrees, in the units of the
\* coordinates.
buffer ==
    RatMul(RatDiv(GENERAL_AREA_MILES, RatInt(RoughMilesPerDegree)),
           RatInt(UnitsPerDegree))

\* x BETWEEN lo - buffer AND hi + buffer
between(x, lo, hi) ==
    /\ RatLe(RatInt(lo - x), buffer)
    /\ RatLe(RatInt(x - hi), buffer)

\* The order in which a scan of listing_analysis yields its rows.
AddressOrder == <<"1 Elm St", "2 Oak Ave", "3 Pine Rd">>

\* Mutant: the query without the condition crime_impact IS NULL.
get_properties_in_crime_areas_any(areas, listings) ==
    LET selected(a) ==
            /\ a \in DOMAIN listings
            /\ listings[a].latitude # NULL
            /\ listings[a].longitude # NULL
            /\ \E area \in areas :
                  /\ between(listings[a].latitude, area.min_lat, area.max_lat)
                  /\ between(listings[a].longitude, area.min_lon, area.max_lon)
        found == SelectSeq(AddressOrder, selected)
    IN  [i \in DOMAIN found |->
            [address |-> found[i],
             latitude |-> listings[found[i]].latitude,
             longitude |-> listings[found[i]].longitude]]

\* get_properties_in_crime_areas: the rows (address, latitude, longitude) of
\* the listings the query of crime_impact.py:204-211 selects; <<>> stands for
\* the None of an empty result or of no coverage area.
get_properties_in_crime_areas(areas, listings) ==
    LET selected(a) ==
            /\ a \in DOMAIN listings
            /\ listings[a].crime_impact = NullText
            /\ listings[a].latitude # NULL
            /\ listings[a].longitude # NULL
            /\ \E area \in areas :
                  /\ between(listings[a].latitude, area.min_lat, area.max_lat)
                  /\ between(listings[a].longitude, area.min_lon, area.max_lon)
        found == SelectSeq(AddressOrder, selected)
    IN  [i \in DOMAIN found |->
            [address |-> found[i],
             latitude |-> listings[found[i]].latitude,
             longitude |-> listings[found[i]].longitude]]

\* Mutant: UPDATE listing_analysis SET ... without the WHERE clause.
update_listing_all(listings, address, category) ==
    [a \in DOMAIN listings |->
        [listings[a] EXCEPT !.crime_impact = category, !.analyzed_at = "now"]]

\* UPDATE listing_analysis SET crime_impact = ?, analyzed_at = datetime('now')
\* WHERE address = ?
update_listing(listings, address, category) ==
    [a \in DOMAIN listings |->
        IF a = address
        THEN [listings[a] EXCEPT !.crime_impact = category, !.analyzed_at = "now"]
        ELSE listings[a]]

\* crime_impact.py:235-238
GetCoverage ==
    /\ pc = "start"
    /\ crime_areas' = get_crime_coverage_areas(crime_data)
    /\ pc' = IF crime_areas' = {} THEN "returned" ELSE "select"
    /\ UNCHANGED <<crime_data, crimes_df, properties_df, scores, analyses,
                   crime_impact, listing_analysis, update_idx, runs>>
    /\ UNCHANGED clusterVars

\* crime_impact.py:241-244
SelectProperties ==
    /\ pc = "select"
    /\ properties_df' = get_properties_in_crime_areas(crime_areas, listing_analysis)
    /\ pc' = IF properties_df' = <<>> THEN "returned" ELSE "load"
    /\ UNCHANGED <<crime_data, crimes_df, scores, analyses, crime_impact,
                   crime_areas, listing_analysis, update_idx, runs>>
    /\ UNCHANGED clusterVars

\* One iteration of the loop at crime_impact.py:284-292
UpdateRow ==
    /\ pc = "update"
    /\ update_idx < Len(properties_df)
    /\ LET row == properties_df[update_idx + 1]
           category == crime_impact[update_idx + 1]
       IN  listing_analysis' =
               IF category # "Insufficient Data"
               THEN update_listing(listing_analysis, row.address, category)
               ELSE listing_analysis
    /\ update_idx' = update_idx + 1
    /\ UNCHANGED <<crime_data, crimes_df, properties_df, scores, analyses,
                   crime_impact, pc, crime_areas, runs>>
    /\ UNCHANGED clusterVars

\* crime_impact.py:294-300: the loop is over, the connection commits.
FinishUpdate ==
    /\ pc = "update"
    /\ update_idx = Len(properties_df)
    /\ pc' = "done"
    /\ UNCHANGED <<crime_data, crimes_df, properties_df, scores, analyses,
                   crime_impact, crime_areas, listing_analysis, update_idx, runs>>
    /\ UNCHANGED clusterVars

MaxListings == 2

MaxRuns == 2

\* crime_impact.py:308-309: the script is run once more on the database the
\* last run left; everything but the tables starts afresh.
RunAgain ==
    /\ pc \in {"done", "returned"}
    /\ runs < MaxRuns
    /\ runs' = runs + 1
    /\ crime_areas' = {}
    /\ properties_df' = <<>>
    /\ crimes_df' = <<>>
    /\ scores' = <<>>
    /\ analyses' = <<>>
    /\ crime_impact' = <<>>
    /\ update_idx' = 0
    /\ pc' = "start"
    /\ UNCHANGED <<crime_data, listing_analysis>>
    /\ UNCHANGED clusterVars

\* The tables listing_analysis over the first addresses of AddressOrder.
ListingTables(rows) ==
    UNION {[{AddressOrder[i] : i \in 1..k} -> rows] : k \in 1..MaxListings}

\* A bag of rows from the counts t of the rows of a set (rows counted 0 left out).
TableOf(t) == [r \in {x \in DOMAIN t : t[x] > 0} |-> t[r]]

\* ---- update_listing_analysis as a whole, on one meridian ----

\* A row of table crime_data.
StoredCrime(latitude, longitude, crime_date) ==
    [crime_type |-> "BURGLARY", latitude |-> latitude, longitude |-> longitude,
     crime_date |-> crime_date]

\* Burglaries at 0, -1, 5 and 7.5 miles (one tenth of a degree begins at 6.91
\* miles), an old record and a record without latitude.  The many burglaries
\* one mile south bring the relative density at latitude 0 down to 0.76 or 1.38.
ListingCrimeChoices ==
    [{StoredCrime(0, 0, 30)} -> {0, 6, 11}]
        \X [{StoredCrime(-20, 0, 30)} -> {0, 500}]
        \X [{StoredCrime(100, 0, 30)} -> {0, 5}]
        \X [{StoredCrime(150, 0, 30)} -> {0, 11}]
        \X [{StoredCrime(0, 0, 400)} -> {0, 5}]
        \X [{StoredCrime(NULL, 0, 30)} -> {0, 1}]

ListingCrimeTables ==
    {TableOf(c[1] @@ c[2] @@ c[3] @@ c[4] @@ c[5] @@ c[6]) :
        c \in ListingCrimeChoices}

ListingRows ==
    [latitude : {0, 50, 141}, longitude : {0},
     crime_impact : {NullText, "Low Crime Impact"}, analyzed_at : {"earlier"}]
        \cup [latitude : {NULL}, longitude : {NULL},
              crime_impact : {NullText, "Low Crime Impact"}, analyzed_at : {"earlier"}]

InitListing ==
    /\ ClusterIdle
    /\ crime_data \in ListingCrimeTables
    /\ listing_analysis \in ListingTables(ListingRows)
    /\ crime_areas = {}
    /\ properties_df = <<>>
    /\ crimes_df = <<>>
    /\ scores = <<>>
    /\ analyses = <<>>
    /\ crime_impact = <<>>
    /\ update_idx = 0
    /\ runs = 1
    /\ pc = "start"

NextListing ==
    \/ GetCoverage
    \/ SelectProperties
    \/ LoadCrimes
    \/ ScoreProperty
    \/ Categorize
    \/ UpdateRow
    \/ FinishUpdate

SpecListing == InitListing /\ [][NextListing]_vars

\* update_listing_analysis run more than once on the same database.
NextRerun == NextListing \/ RunAgain

SpecRerun == InitListing /\ [][NextRerun]_vars

\* ---- get_crime_coverage_areas and get_properties_in_crime_areas, with ----
\* ---- latitudes and longitudes on both sides of zero                   ----

\* In tenths of a degree the coordinates used are 0.40 (55), 0.60 (83),
\* -0.60 (-83) and 1.40 (193).
CoverageCrimeChoices ==
    [{StoredCrime(55, 0, 30)} -> {0, 5, 11}]
        \X [{StoredCrime(83, 0, 30)} -> {0, 6}]
        \X [{StoredCrime(-83, 0, 30)} -> {0, 6}]
        \X [{StoredCrime(193, 0, 30)} -> {0, 10, 11}]
        \X [{StoredCrime(55, -83, 30)} -> {0, 5}]
        \X [{StoredCrime(55, 193, 30)} -> {0, 11}]
        \X {[r \in {StoredCrime(55, 0, 400), StoredCrime(55, NULL, 30)}
                |-> n] : n \in {0, 5}}

CoverageCrimeTables ==
    {TableOf(c[1] @@ c[2] @@ c[3] @@ c[4] @@ c[5] @@ c[6] @@ c[7]) :
        c \in CoverageCrimeChoices}

CoverageListingRows ==
    [latitude : {55, 123, 125}, longitude : {0},
     crime_impact : {NullText}, analyzed_at : {"earlier"}]
        \cup {[latitude |-> 55, longitude |-> 230,
               crime_impact |-> NullText, analyzed_at |-> "earlier"],
              [latitude |-> 55, longitude |-> 0,
               crime_impact |-> "Low Crime Impact", analyzed_at |-> "earlier"],
              [latitude |-> NULL, longitude |-> NULL,
               crime_impact |-> NullText, analyzed_at |-> "earlier"]}

InitCoverage ==
    /\ ClusterIdle
    /\ crime_data \in CoverageCrimeTables
    /\ listing_analysis \in ListingTables(CoverageListingRows)
    /\ crime_areas = {}
    /\ properties_df = <<>>
    /\ crimes_df = <<>>
    /\ scores = <<>>
    /\ analyses = <<>>
    /\ crime_impact = <<>>
    /\ update_idx = 0
    /\ runs = 1
    /\ pc = "start"

NextCoverage == GetCoverage \/ SelectProperties

SpecCoverage == InitCoverage /\ [][NextCoverage]_vars

-----------------------------------------------------------------------------
(* crimeareaclusterer.py                                                   *)
(*                                                                         *)
(* Incidents lie on the equator (lat 0); lon is the ground distance in     *)
(* metres east of the west edge of the UTM zone numbered 0 here.  A UTM    *)
(* zone is 6 degrees wide; its transverse Mercator projection has scale    *)
(* k0 = 0.9996 on the central meridian and k0 * (1 + d^2 / (2 R^2)) at     *)
(* ground distance d from it, so a projected length depends on the zone    *)
(* the frame was projected to.                                             *)

ZoneWidth     == 667917    \* metres in 6 degrees of longitude on the equator
EarthRadiusKm == 6378
K0PPM         == 999600    \* k0 in parts per million

BufferMetres == 100
eps          == 300

\* Mutant: a single sample is dense enough to form a cluster.
min_samples_one == 1

min_samples  == 2

\* sorted(crime types): the order in which groupby yields the groups
CategoryOrder == <<"ARSON", "BURGLARY">>

\* Two incidents 50 m apart near a central meridian, one 300 m from the
\* first, and one about 1400 km to the east.
ClusterLons == {333958, 334008, 334258, 1733958}

MaxIncidents == 4

\* An incident of either type at each of these places, and an arson 5 km
\* east of the first place.
IncidentRows ==
    [crime_type : Categories, lat : {0}, lon : ClusterLons]
        \cup {[crime_type |-> "ARSON", lat |-> 0, lon |-> 338958]}

IncidentFrames == UNION {[1..k -> IncidentRows] : k \in 1..MaxIncidents}

\* The float NaN as a coordinate: what read_csv gives for a missing cell.
NaN == -888888

MaxNaNIncidents == 3

\* Frames in which rows may lack their coordinates.
NaNIncidentRows ==
    [crime_type : Categories, lat : {0}, lon : {333958, 334008}]
        \cup [crime_type : Categories, lat : {NaN}, lon : {NaN}]

NaNIncidentFrames == UNION {[1..k -> NaNIncidentRows] : k \in 1..MaxNaNIncidents}

\* A row whose point has finite coordinates.
IsFinite(row) == row.lat # NaN /\ row.lon # NaN

\* GeoDataFrame.estimate_utm_crs: the UTM zone of the centre of total_bounds
\* (the bounds are taken with nanmin and nanmax: over the finite points).
estimate_utm_crs(df) ==
    LET xs   == {df[i].lon : i \in {k \in DOMAIN df : IsFinite(df[k])}}
        minx == SetMin(xs)
        maxx == SetMax(xs)
    IN  ((minx + maxx) \div 2) \div ZoneWidth

CentralMeridian(crs) == crs * ZoneWidth + ZoneWidth \div 2

\* The scale of the projection crs at lon, in parts per million.
ScalePPM(crs, lon) ==
    LET dkm == Abs(lon - CentralMeridian(crs)) \div 1000
    IN  K0PPM + (dkm * dkm * 100) \div ((2 * EarthRadiusKm * EarthRadiusKm) \div 10000)

\* to_crs(utm_crs), then the distance of two projected points, in millimetres
\* (points more than a kilometre apart keep their ground distance: they are
\* far from each other in every zone).
ProjectedDistance(crs, lon1, lon2) ==
    LET g == Abs(lon1 - lon2)
    IN  IF g > 1000 THEN g * 1000
        ELSE (g * ScalePPM(crs, (lon1 + lon2) \div 2)) \div 1000

\* gdf_utm.buffer(100) of one point, carried back to WGS84 at the end: the
\* disc of projected radius 100 m about the point, whose extent on the ground
\* is the radius divided by the scale of the projection there.
Buffer(crs, lon) ==
    [center |-> lon, radius |-> BufferMetres, scale |-> ScalePPM(crs, lon)]

\* unary_union of the buffered points of the rows idxs of df
unary_union(df, crs, idxs) == {Buffer(crs, df[i].lon) : i \in idxs}

\* Mutant: the frame is not split by crime type.
GroupRows_all(df, crime_type, from) == [i \in 1..Len(df) |-> i]

\* The rows of df of one crime type, in row order (one group of groupby).
RECURSIVE GroupRows(_, _, _)
GroupRows(df, crime_type, from) ==
    IF from > Len(df) THEN <<>>
    ELSE IF df[from].crime_type = crime_type
         THEN <<from>> \o GroupRows(df, crime_type, from + 1)
         ELSE GroupRows(df, crime_type, from + 1)

\* gdf_utm.groupby('crime_type'): the crime types that have rows, sorted.
grouped(df) ==
    SelectSeq(CategoryOrder, LAMBDA c : \E i \in DOMAIN df : df[i].crime_type = c)

\* DBSCAN(eps=300, min_samples=2).fit(coords).labels_ for the group grp (a
\* sequence of row numbers of df); positions of grp are the sample numbers.
neighborhoods(df, crs, grp, i) ==
    {j \in DOMAIN grp :
        ProjectedDistance(crs, df[grp[i]].lon, df[grp[j]].lon) <= eps * 1000}

is_core(df, crs, grp, i) ==
    Cardinality(neighborhoods(df, crs, grp, i)) >= min_samples

\* Mutant: a cluster is its seed and the seed's own neighbourhood only.
Expand_direct(df, crs, grp, S) ==
    S \cup UNION {neighborhoods(df, crs, grp, i) :
                    i \in {x \in S : is_core(df, crs, grp, x)}}

\* The samples reached from the samples S through neighbourhoods of core samples.
RECURSIVE Expand(_, _, _, _)
Expand(df, crs, grp, S) ==
    LET more == S \cup UNION {neighborhoods(df, crs, grp, i) :
                                i \in {x \in S : is_core(df, crs, grp, x)}}
    IN  IF more = S THEN S ELSE Expand(df, crs, grp, more)

\* dbscan_inner: samples in order; an unlabelled core sample starts the next
\* label, given to every sample reached from it that has no label yet.
RECURSIVE dbscan_inner(_, _, _, _, _, _)
dbscan_inner(df, crs, grp, i, labels, label_num) ==
    IF i > Len(grp) THEN labels
    ELSE IF labels[i] # -1 \/ ~is_core(df, crs, grp, i)
         THEN dbscan_inner(df, crs, grp, i + 1, labels, label_num)
         ELSE LET reached == Expand(df, crs, grp, {i})
                  new == [j \in DOMAIN grp |->
                            IF j \in reached /\ labels[j] = -1 THEN label_num
                            ELSE labels[j]]
              IN  dbscan_inner(df, crs, grp, i + 1, new, label_num + 1)

DBSCAN(df, crs, grp) ==
    dbscan_inner(df, crs, grp, 1, [j \in DOMAIN grp |-> -1], 0)

\* Mutant: the noise label -1 is kept as if it were a cluster.
RECURSIVE UniqueLabels_noise(_, _, _)
UniqueLabels_noise(labels, i, seen) ==
    IF i > Len(labels) THEN <<>>
    ELSE IF labels[i] \in seen
         THEN UniqueLabels_noise(labels, i + 1, seen)
         ELSE <<labels[i]>> \o UniqueLabels_noise(labels, i + 1, seen \cup {labels[i]})

\* Mutant: one entry per clustered row instead of one per distinct label.
UniqueLabels_all(labels, i, seen) ==
    LET kept == {j \in DOMAIN labels : labels[j] # -1}
        RECURSIVE Take(_)
        Take(j) == IF j > Len(labels) THEN <<>>
                   ELSE (IF j \in kept THEN <<labels[j]>> ELSE <<>>) \o Take(j + 1)
    IN  Take(i)

\* The labels of a label function in the order of their first sample
\* (clustered['cluster'].unique()), noise left out.
RECURSIVE UniqueLabels(_, _, _)
UniqueLabels(labels, i, seen) ==
    IF i > Len(labels) THEN <<>>
    ELSE IF labels[i] = -1 \/ labels[i] \in seen
         THEN UniqueLabels(labels, i + 1, seen)
         ELSE <<labels[i]>> \o UniqueLabels(labels, i + 1, seen \cup {labels[i]})

\* cluster_and_merge(gdf_group): the merged clusters of one group, <<>> for
\* None.  members (the rows of cluster_subset) is kept for the properties.
cluster_and_merge(df, crs, grp) ==
    LET cur_crime == df[grp[1]].crime_type
        labels    == DBSCAN(df, crs, grp)
        ids       == UniqueLabels(labels, 1, {})
        subset(cluster_id) == {grp[j] : j \in {x \in DOMAIN grp : labels[x] = cluster_id}}
    IN  [k \in DOMAIN ids |->
            [crime_type |-> cur_crime,
             geometry   |-> unary_union(df, crs, subset(ids[k])),
             cluster_id |-> ids[k],
             members    |-> subset(ids[k])]]

\* pd.concat(geo_dfs, ignore_index=True)
RECURSIVE concat(_)
concat(dfs) == IF dfs = <<>> THEN <<>> ELSE Head(dfs) \o concat(Tail(dfs))

\* process_crime_data as a whole: the frame it returns for the argument df.
RECURSIVE ClusterGroups(_, _, _, _)
ClusterGroups(df, crs, types, k) ==
    IF k > Len(types) THEN <<>>
    ELSE LET result == cluster_and_merge(df, crs, GroupRows(df, types[k], 1))
         IN  (IF result # <<>> THEN <<result>> ELSE <<>>)
                \o ClusterGroups(df, crs, types, k + 1)

process_crime_data(df) ==
    concat(ClusterGroups(df, estimate_utm_crs(df), grouped(df), 1))

InitCluster ==
    /\ ImpactIdle
    /\ crime_data_df \in IncidentFrames
    /\ utm_crs = -1
    /\ group_idx = 0
    /\ geo_dfs = <<>>
    /\ clustered_gdf = <<>>
    /\ cpc = "start"
    /\ gdf = <<>>
    /\ save_idx = 0
    /\ crime_areas_tbl = <<>>
    /\ spc = "idle"
    /\ FilesIdle
    /\ PipelineIdle

\* crimeareaclusterer.py:52-68
Project ==
    /\ cpc = "start"
    /\ \E i \in DOMAIN crime_data_df : IsFinite(crime_data_df[i])
    /\ utm_crs' = estimate_utm_crs(crime_data_df)
    /\ cpc' = "groups"
    /\ UNCHANGED <<crime_data_df, group_idx, geo_dfs, clustered_gdf>>
    /\ UNCHANGED saveVars
    /\ UNCHANGED impactVars

\* crimeareaclusterer.py:62: no row has finite coordinates, the bounds of the
\* frame are NaN and no UTM zone is found for them; the error leaves
\* process_crime_data.
ProjectRaises ==
    /\ cpc = "start"
    /\ \A i \in DOMAIN crime_data_df : ~IsFinite(crime_data_df[i])
    /\ cpc' = "raised"
    /\ UNCHANGED <<crime_data_df, utm_crs, group_idx, geo_dfs, clustered_gdf>>
    /\ UNCHANGED saveVars
    /\ UNCHANGED impactVars

\* crimeareaclusterer.py:79-82: the centroid of the buffer of a point without
\* finite coordinates is not finite, and DBSCAN.fit rejects an array that
\* holds a NaN with a ValueError, which nothing in process_crime_data catches.
ClusterGroupRaises ==
    /\ cpc = "groups"
    /\ group_idx < Len(grouped(crime_data_df))
    /\ \E i \in DOMAIN crime_data_df :
          /\ crime_data_df[i].crime_type = grouped(crime_data_df)[group_idx + 1]
          /\ ~IsFinite(crime_data_df[i])
    /\ cpc' = "raised"
    /\ UNCHANGED <<crime_data_df, utm_crs, group_idx, geo_dfs, clustered_gdf>>
    /\ UNCHANGED saveVars
    /\ UNCHANGED impactVars

\* One iteration of the loop at crimeareaclusterer.py:113-119
ClusterGroup ==
    /\ cpc = "groups"
    /\ group_idx < Len(grouped(crime_data_df))
    /\ \A i \in DOMAIN crime_data_df :
          crime_data_df[i].crime_type = grouped(crime_data_df)[group_idx + 1]
              => IsFinite(crime_data_df[i])
    /\ LET crime_type == grouped(crime_data_df)[group_idx + 1]
           result == cluster_and_merge(crime_data_df, utm_crs,
                                       GroupRows(crime_data_df, crime_type, 1))
       IN  geo_dfs' = IF result # <<>> THEN Append(geo_dfs, result) ELSE geo_dfs
    /\ group_idx' = group_idx + 1
    /\ UNCHANGED <<crime_data_df, utm_crs, clustered_gdf, cpc>>
    /\ UNCHANGED saveVars
    /\ UNCHANGED impactVars

\* crimeareaclusterer.py:121-123
ReturnEmpty ==
    /\ cpc = "groups"
    /\ group_idx = Len(grouped(crime_data_df))
    /\ geo_dfs = <<>>
    /\ clustered_gdf' = <<>>
    /\ cpc' = "done"
    /\ UNCHANGED <<crime_data_df, utm_crs, group_idx, geo_dfs>>
    /\ UNCHANGED saveVars
    /\ UNCHANGED impactVars

\* crimeareaclusterer.py:125-137
ReturnClusters ==
    /\ cpc = "groups"
    /\ group_idx = Len(grouped(crime_data_df))
    /\ geo_dfs # <<>>
    /\ clustered_gdf' = concat(geo_dfs)
    /\ cpc' = "done"
    /\ UNCHANGED <<crime_data_df, utm_crs, group_idx, geo_dfs>>
    /\ UNCHANGED saveVars
    /\ UNCHANGED impactVars

NextCluster == Project \/ ClusterGroup \/ ReturnEmpty \/ ReturnClusters

SpecCluster == InitCluster /\ [][NextCluster]_vars

\* process_crime_data on frames that may hold rows without coordinates.
InitClusterNaN ==
    /\ ImpactIdle
    /\ crime_data_df \in NaNIncidentFrames
    /\ utm_crs = -1
    /\ group_idx = 0
    /\ geo_dfs = <<>>
    /\ clustered_gdf = <<>>
    /\ cpc = "start"
    /\ gdf = <<>>
    /\ save_idx = 0
    /\ crime_areas_tbl = <<>>
    /\ spc = "idle"
    /\ FilesIdle
    /\ PipelineIdle

NextClusterNaN == NextCluster \/ ProjectRaises \/ ClusterGroupRaises

SpecClusterNaN == InitClusterNaN /\ [][NextClusterNaN]_vars

-----------------------------------------------------------------------------
(* crimeareaclusterer.py: save_to_sqlite                                   *)

MaxSaved == 2

\* The geometries of the frames given to save_to_sqlite: the empty geometry,
\* one disc (a cluster of incidents at one place) and two discs.
SaveGeometries ==
    {{}, {Buffer(0, 333958)}, {Buffer(0, 333958), Buffer(0, 334008)}}

SaveRows == [crime_type : Categories, geometry : SaveGeometries]

SaveFrames == UNION {[1..k -> SaveRows] : k \in 1..MaxSaved}

\* The clustered frames of the CSV files process_all_files walks through:
\* one file, or two files (among them the same frame twice).
FileLists == {<<f>> : f \in SaveFrames} \cup (SaveFrames \X SaveFrames)

\* geometry.wkt: the text of a geometry, its parts in a fixed order (here by
\* centre); the empty geometry gives the text without parts.
RECURSIVE wkt(_)
wkt(geometry) ==
    IF geometry = {} THEN <<>>
    ELSE LET first == CHOOSE b \in geometry :
                          \A c \in geometry : b.center <= c.center
         IN  <<<<first.center, first.radius, first.scale>>>>
                 \o wkt(geometry \ {first})

\* The rows table crime_areas may hold before the call.
StoredAreas ==
    {<<>>, <<[crime_type |-> "BURGLARY", geometry |-> wkt({Buffer(0, 333958)})]>>}

\* plain INSERT into a table without the UNIQUE constraint
insert_always(table, crime_type, geometry_wkt) ==
    Append(table, [crime_type |-> crime_type, geometry |-> geometry_wkt])

\* INSERT OR IGNORE under UNIQUE(crime_type, geometry)
insert_or_ignore(table, crime_type, geometry_wkt) ==
    IF \E k \in DOMAIN table : /\ table[k].crime_type = crime_type
                               /\ table[k].geometry = geometry_wkt
    THEN table
    ELSE Append(table, [crime_type |-> crime_type, geometry |-> geometry_wkt])

InitSave ==
    /\ ImpactIdle
    /\ crime_data_df = <<>> /\ utm_crs = -1 /\ group_idx = 0
    /\ geo_dfs = <<>> /\ clustered_gdf = <<>> /\ cpc = "idle"
    /\ PipelineIdle
    /\ csv_files \in FileLists
    /\ file_idx = 1
    /\ gdf = csv_files[1]
    /\ save_idx = 0
    /\ crime_areas_tbl \in StoredAreas
    /\ spc = "start"

\* crimeareaclusterer.py:145-164: connect, CREATE TABLE IF NOT EXISTS
EnsureTable ==
    /\ spc = "start"
    /\ spc' = "insert"
    /\ UNCHANGED <<gdf, save_idx, crime_areas_tbl, filesVars, pipelineVars>>
    /\ UNCHANGED <<crime_data_df, utm_crs, group_idx, geo_dfs, clustered_gdf, cpc>>
    /\ UNCHANGED impactVars

\* One iteration of the loop at crimeareaclusterer.py:168-182.  The columns
\* lat and lon are copied from the frame and are no part of the UNIQUE
\* constraint; they are left out of the rows here.
InsertRow ==
    /\ spc = "insert"
    /\ save_idx < Len(gdf)
    /\ LET row == gdf[save_idx + 1]
           geometry_wkt == wkt(row.geometry)
       IN  crime_areas_tbl' =
               insert_or_ignore(crime_areas_tbl, row.crime_type, geometry_wkt)
    /\ save_idx' = save_idx + 1
    /\ UNCHANGED <<gdf, spc, filesVars, pipelineVars>>
    /\ UNCHANGED <<crime_data_df, utm_crs, group_idx, geo_dfs, clustered_gdf, cpc>>
    /\ UNCHANGED impactVars

\* crimeareaclusterer.py:184-185
CloseSave ==
    /\ spc = "insert"
    /\ save_idx = Len(gdf)
    /\ spc' = "done"
    /\ UNCHANGED <<gdf, save_idx, crime_areas_tbl, filesVars, pipelineVars>>
    /\ UNCHANGED <<crime_data_df, utm_crs, group_idx, geo_dfs, clustered_gdf, cpc>>
    /\ UNCHANGED impactVars

\* crimeareaclusterer.py:239-240: process_all_files goes on to the next file,
\* whose clustered frame process_csv_file hands to save_to_sqlite.
NextFile ==
    /\ spc = "done"
    /\ file_idx < Len(csv_files)
    /\ file_idx' = file_idx + 1
    /\ gdf' = csv_files[file_idx + 1]
    /\ save_idx' = 0
    /\ spc' = "start"
    /\ UNCHANGED <<crime_areas_tbl, csv_files, pipelineVars>>
    /\ UNCHANGED <<crime_data_df, utm_crs, group_idx, geo_dfs, clustered_gdf, cpc>>
    /\ UNCHANGED impactVars

NextSave == EnsureTable \/ InsertRow \/ CloseSave \/ NextFile

SpecSave == InitSave /\ [][NextSave]_vars

-----------------------------------------------------------------------------
(* crimedataingest.py                                                      *)
(*                                                                         *)
(* A date is its age in days, as in table crime_data above.  A raw cell of *)
(* a CSV file is a pair of the form it is written in and its value.  The   *)
(* columns source_file and ingested_at, which are no part of the UNIQUE    *)
(* constraint, are left out of the rows.                                   *)

\* What pd.to_datetime(errors='coerce') gives for a cell it cannot parse.
NaT == -777777

\* pd.to_datetime(format='mixed', errors='coerce'), crimedataingest.py:168-173
to_datetime(cell) == IF cell[1] \in {"iso", "us"} THEN cell[2] ELSE NaT

\* pd.to_numeric(errors='coerce'), crimedataingest.py:184
to_numeric(cell) == IF cell[1] = "num" THEN cell[2] ELSE NaN

RawRow(date, crime_type, lat) ==
    [crime_date |-> date, crime_type |-> crime_type, latitude |-> lat,
     longitude |-> <<"num", 0>>]

\* The rows of the CSV files: two records of one incident written in two
\* date formats, records at another place and on another day, a record older
\* than a year, a date that does not parse and a latitude that is no number.
IngestRows ==
    {RawRow(<<"iso", 30>>, "BURGLARY", <<"num", 0>>),
     RawRow(<<"us", 30>>, "THEFT", <<"num", 0>>),
     RawRow(<<"iso", 30>>, "BURGLARY", <<"num", 1>>),
     RawRow(<<"iso", 60>>, "THEFT", <<"num", 0>>),
     RawRow(<<"iso", 400>>, "THEFT", <<"num", 0>>),
     RawRow(<<"bad", 0>>, "THEFT", <<"num", 0>>),
     RawRow(<<"iso", 30>>, "THEFT", <<"str", 0>>)}

MaxFileRows == 3

\* The rows of one batch; chunk_size is 250 at crimedataingest.py:213, the
\* batches are scaled down so that a small file has more than one.
ChunkRows == 2

\* A CSV file: whether it has the required columns, and its rows.
CsvFile(rows) == [columns_ok |-> TRUE, rows |-> rows]

IngestFiles == {CsvFile(rows) : rows \in UNION {[1..k -> IngestRows] : k \in 1..MaxFileRows}}

\* Files that may follow the first one: one that overlaps a stored incident,
\* one with new incidents only and one without a latitude column.
OtherFiles ==
    {CsvFile(<<RawRow(<<"iso", 60>>, "THEFT", <<"num", 1>>),
               RawRow(<<"iso", 60>>, "THEFT", <<"num", 2>>),
               RawRow(<<"iso", 30>>, "THEFT", <<"num", 0>>)>>),
     CsvFile(<<RawRow(<<"iso", 90>>, "THEFT", <<"num", 5>>)>>),
     [columns_ok |-> FALSE, rows |-> <<RawRow(<<"iso", 90>>, "THEFT", <<"num", 6>>)>>]}

\* The files of the data folder: one file, the same file twice, or a file
\* followed by one of OtherFiles.
IngestFileLists ==
    {<<f>> : f \in IngestFiles} \cup {<<f, f>> : f \in IngestFiles}
        \cup (IngestFiles \X OtherFiles)

\* The rows crime_data may hold from earlier runs.
StoredIncidents ==
    {<<>>, SetToBag({[crime_type |-> "BURGLARY", latitude |-> 0, longitude |-> 0,
                      crime_date |-> 30]})}

\* crimedataingest.py:164-178
validate_dates(df) ==
    LET parsed == [i \in DOMAIN df |->
                      [df[i] EXCEPT !.crime_date = to_datetime(df[i].crime_date)]]
        recent(r) == r.crime_date # NaT /\ r.crime_date <= OneYearDays
    IN  SelectSeq(parsed, recent)

\* crimedataingest.py:180-187
validate_coordinates(df) ==
    LET numeric == [i \in DOMAIN df |->
                       [df[i] EXCEPT !.latitude = to_numeric(df[i].latitude),
                                     !.longitude = to_numeric(df[i].longitude)]]
        located(r) == r.latitude # NaN /\ r.longitude # NaN
    IN  SelectSeq(numeric, located)

\* The columns of the UNIQUE constraint and of drop_duplicates.
IncidentKey(r) == <<r.crime_date, r.latitude, r.longitude>>

\* df.drop_duplicates(subset=['crime_date', 'latitude', 'longitude']): of the
\* rows with one key the first is kept.
RECURSIVE drop_duplicates(_)
drop_duplicates(df) ==
    IF df = <<>> THEN <<>>
    ELSE LET front == drop_duplicates(SubSeq(df, 1, Len(df) - 1))
             last  == df[Len(df)]
         IN  IF \E i \in DOMAIN front : IncidentKey(front[i]) = IncidentKey(last)
             THEN front
             ELSE Append(front, last)

\* crimedataingest.py:198-206; <<>> also stands for the None of
\* standardize_columns.
validated(file) ==
    IF ~file.columns_ok THEN <<>>
    ELSE drop_duplicates(validate_coordinates(validate_dates(file.rows)))

\* chunk_dataframe: the batch that begins after `start` rows.
chunk(df, start) ==
    SubSeq(df, start + 1, IF start + ChunkRows < Len(df) THEN start + ChunkRows
                          ELSE Len(df))

RECURSIVE BagOfRows(_)
BagOfRows(rows) ==
    IF rows = <<>> THEN EmptyBag
    ELSE BagOfRows(Tail(rows)) (+) SetToBag({Head(rows)})

\* Mutant: the rows appended to a table that has no UNIQUE constraint.
to_sql_unconstrained(table, batch) ==
    [raised |-> FALSE, table |-> table (+) BagOfRows(batch)]

\* batch.to_sql('crime_data', conn, if_exists='append'): plain INSERTs in one
\* transaction.  A row whose key is stored already, or occurs twice in the
\* batch, violates UNIQUE(crime_date, latitude, longitude): the statement
\* raises and the transaction is rolled back.
to_sql(table, batch) ==
    LET stored == \E i \in DOMAIN batch : \E r \in DOMAIN table :
                      IncidentKey(batch[i]) = IncidentKey(r)
        twice  == \E i, j \in DOMAIN batch :
                      i # j /\ IncidentKey(batch[i]) = IncidentKey(batch[j])
    IN  IF stored \/ twice
        THEN [raised |-> TRUE, table |-> table]
        ELSE [raised |-> FALSE, table |-> table (+) BagOfRows(batch)]

ingestRest == <<crimes_df, properties_df, scores, analyses, crime_impact, pc,
                listingVars, crime_data_df, utm_crs, group_idx, geo_dfs,
                clustered_gdf, cpc, gdf, save_idx, crime_areas_tbl, spc,
                filesVars, analyzerVars, marketVars, picksVars>>

InitIngest ==
    /\ crimes_df = <<>> /\ properties_df = <<>>
    /\ scores = <<>> /\ analyses = <<>> /\ crime_impact = <<>> /\ pc = "idle"
    /\ crime_areas = {} /\ listing_analysis = <<>> /\ update_idx = 0
    /\ runs = 0
    /\ crime_data_df = <<>> /\ utm_crs = -1 /\ group_idx = 0
    /\ geo_dfs = <<>> /\ clustered_gdf = <<>> /\ cpc = "idle"
    /\ gdf = <<>> /\ save_idx = 0 /\ crime_areas_tbl = <<>> /\ spc = "idle"
    /\ FilesIdle
    /\ AnalyzerIdle
    /\ MarketIdle
    /\ PicksIdle
    /\ crime_data \in StoredIncidents
    /\ ingest_files \in IngestFileLists
    /\ ingest_idx = 0
    /\ validated_df = <<>>
    /\ batch_start = 0
    /\ ingest_errors = {}
    /\ ipc = "main"

\* crimedataingest.py:238-243: ensure_table_exists, get_csv_files
EnsureCrimeTable ==
    /\ ipc = "main"
    /\ ipc' = IF ingest_files = <<>> THEN "done" ELSE "file"
    /\ UNCHANGED <<crime_data, ingest_files, ingest_idx, validated_df,
                   batch_start, ingest_errors>>
    /\ UNCHANGED ingestRest

\* crimedataingest.py:189-208: process_file up to the batch loop
ProcessFile ==
    /\ ipc = "file"
    /\ ingest_idx < Len(ingest_files)
    /\ validated_df' = validated(ingest_files[ingest_idx + 1])
    /\ batch_start' = 0
    /\ IF validated_df' = <<>>
       THEN ingest_idx' = ingest_idx + 1 /\ ipc' = "file"
       ELSE ingest_idx' = ingest_idx /\ ipc' = "insert"
    /\ UNCHANGED <<crime_data, ingest_files, ingest_errors>>
    /\ UNCHANGED ingestRest

\* crimedataingest.py:213-220: one batch is inserted
InsertBatch ==
    /\ ipc = "insert"
    /\ batch_start < Len(validated_df)
    /\ LET batch  == chunk(validated_df, batch_start)
           result == to_sql(crime_data, batch)
       IN  /\ ~result.raised
           /\ crime_data' = result.table
           /\ batch_start' = batch_start + Len(batch)
    /\ UNCHANGED <<ingest_files, ingest_idx, validated_df, ingest_errors, ipc>>
    /\ UNCHANGED ingestRest

\* crimedataingest.py:215 and 224-226: to_sql raises, the except clause of
\* process_file prints the error and process_file returns.
InsertBatchRaises ==
    /\ ipc = "insert"
    /\ batch_start < Len(validated_df)
    /\ LET batch  == chunk(validated_df, batch_start)
           result == to_sql(crime_data, batch)
       IN  /\ result.raised
           /\ crime_data' = result.table
    /\ ingest_errors' = ingest_errors \cup {ingest_idx + 1}
    /\ ingest_idx' = ingest_idx + 1
    /\ ipc' = "file"
    /\ UNCHANGED <<ingest_files, validated_df, batch_start>>
    /\ UNCHANGED ingestRest

\* crimedataingest.py:213: the batches of the file are through
EndFile ==
    /\ ipc = "insert"
    /\ batch_start = Len(validated_df)
    /\ ingest_idx' = ingest_idx + 1
    /\ ipc' = "file"
    /\ UNCHANGED <<crime_data, ingest_files, validated_df, batch_start,
                   ingest_errors>>
    /\ UNCHANGED ingestRest

\* crimedataingest.py:245-248: the loop over the files is over
FinishIngest ==
    /\ ipc = "file"
    /\ ingest_idx = Len(ingest_files)
    /\ ipc' = "done"
    /\ UNCHANGED <<crime_data, ingest_files, ingest_idx, validated_df,
                   batch_start, ingest_errors>>
    /\ UNCHANGED ingestRest

NextIngest ==
    \/ EnsureCrimeTable
    \/ ProcessFile
    \/ InsertBatch
    \/ InsertBatchRaises
    \/ EndFile
    \/ FinishIngest

SpecIngest == InitIngest /\ [][NextIngest]_vars

-----------------------------------------------------------------------------
(* crimedataanalyzer.py: process_statistical_crime_clusters                *)
(*                                                                         *)
(* A latitude is in thousandths of a degree and a bin in hundredths; the   *)
(* longitude of every incident is 0.  The frame is a bag of rows.  The     *)
(* columns created_at and analyzed_at of the tables are left out.          *)

\* threshold=50, crimedataanalyzer.py:332 and :443
threshold == 50

\* The crime types of the frame, in the order groupby yields them.
AnalysisTypes == <<"burglary", "theft">>

\* str.upper()
upper(crime_type) == IF crime_type = "burglary" THEN "BURGLARY" ELSE "THEFT"

\* Latitudes 1.000 and 1.004, which round to 1.00, and 1.006, which rounds
\* to 1.01.
AnalysisLats == {1000, 1004, 1006}

AnalysisRows ==
    [crime_type : {AnalysisTypes[i] : i \in DOMAIN AnalysisTypes},
     latitude : AnalysisLats, longitude : {0}]

\* The frames: of each row none, 25 or 50 incidents.
AnalysisFrames ==
    {TableOf(t) : t \in [AnalysisRows -> {0, 25, 50}]}

\* What the LLM may answer; "" is also what get_crime_analysis returns after
\* a failed request (crimedataanalyzer.py:184-189).
LLMReplies == {"", "summary A", "summary B"}

\* The rows llm_responses may hold from an earlier run.
StoredResponses ==
    {<<>>, <<[month |-> "All Time", crime_type |-> "theft",
              response |-> "summary of an earlier run"]>>}

\* round(precision) with precision=2: to the nearest hundredth, a tie to the
\* even one.
round_bin(latitude) ==
    LET q == latitude \div 10
        r == latitude % 10
    IN  IF r < 5 THEN q
        ELSE IF r > 5 THEN q + 1
        ELSE IF q % 2 = 0 THEN q ELSE q + 1

\* The groups of df.groupby(['crime_type', 'lat_bin', 'lon_bin'])
group_names(df) ==
    {<<r.crime_type, round_bin(r.latitude), round_bin(r.longitude)>> : r \in DOMAIN df}

group_rows(df, name) ==
    {r \in DOMAIN df : <<r.crime_type, round_bin(r.latitude),
                         round_bin(r.longitude)>> = name}

RECURSIVE SumLatitudes(_, _)
SumLatitudes(df, rows) ==
    IF rows = {} THEN 0
    ELSE LET r == CHOOSE x \in rows : TRUE
         IN  df[r] * r.latitude + SumLatitudes(df, rows \ {r})

\* One entry of clusters_info, with the mean latitude of its incidents.
cluster_info(df, name) ==
    LET rows  == group_rows(df, name)
        count == SumCounts(df, rows)
    IN  [crime_type |-> name[1], lat_bin |-> name[2], lon_bin |-> name[3],
         count |-> count,
         center_lat |-> Rat(SumLatitudes(df, rows), count)]

TypeIndex(crime_type) == CHOOSE i \in DOMAIN AnalysisTypes : AnalysisTypes[i] = crime_type

\* groupby yields the groups sorted by name.
NameBefore(a, b) ==
    \/ TypeIndex(a.crime_type) < TypeIndex(b.crime_type)
    \/ /\ a.crime_type = b.crime_type
       /\ \/ a.lat_bin < b.lat_bin
          \/ a.lat_bin = b.lat_bin /\ a.lon_bin < b.lon_bin

\* clusters_info.sort(key=lambda x: x[3], reverse=True): by descending count,
\* clusters of one count in the order they had.
RECURSIVE sort_clusters(_)
sort_clusters(infos) ==
    IF infos = {} THEN <<>>
    ELSE LET first == CHOOSE a \in infos :
                          \A b \in infos \ {a} :
                              \/ a.count > b.count
                              \/ a.count = b.count /\ NameBefore(a, b)
         IN  <<first>> \o sort_clusters(infos \ {first})

\* crimedataanalyzer.py:346-359
large_clusters(df) ==
    sort_clusters({c \in {cluster_info(df, name) : name \in group_names(df)} :
                      c.count >= threshold})

\* ensure_llm_response_table: DROP TABLE IF EXISTS llm_responses, then
\* CREATE TABLE llm_responses
ensure_llm_response_table(table) == <<>>

\* insert_llm_response
insert_llm_response(table, month, crime, response_text) ==
    Append(table, [month |-> month, crime_type |-> crime, response |-> response_text])

\* ensure_crime_analysis_table: CREATE TABLE IF NOT EXISTS crime_analysis
ensure_crime_analysis_table(table) == table

\* insert_cluster
insert_cluster(table, cluster_record) ==
    Append(table, [crime_type |-> cluster_record.crime_type,
                   latitude |-> cluster_record.coordinates[1],
                   longitude |-> cluster_record.coordinates[2],
                   incident_count |-> cluster_record.incident_count,
                   cluster_description |-> cluster_record.description])

analyzerRest == <<impactVars, crime_data_df, utm_crs, group_idx, geo_dfs,
                  clustered_gdf, cpc, gdf, save_idx, crime_areas_tbl, spc,
                  filesVars, ingestVars, marketVars, picksVars>>

InitAnalyzer ==
    /\ ImpactIdle
    /\ crime_data_df = <<>> /\ utm_crs = -1 /\ group_idx = 0
    /\ geo_dfs = <<>> /\ clustered_gdf = <<>> /\ cpc = "idle"
    /\ gdf = <<>> /\ save_idx = 0 /\ crime_areas_tbl = <<>> /\ spc = "idle"
    /\ FilesIdle
    /\ IngestIdle
    /\ MarketIdle
    /\ PicksIdle
    /\ analysis_df \in AnalysisFrames
    /\ clusters_info = <<>>
    /\ cluster_idx = 0
    /\ llm_replies = <<>>
    /\ llm_responses \in StoredResponses
    /\ crime_analysis = <<>>
    /\ apc = "start"

\* crimedataanalyzer.py:337-359: bins, groups, the large clusters, sorted
GroupClusters ==
    /\ apc = "start"
    /\ clusters_info' = large_clusters(analysis_df)
    /\ apc' = IF clusters_info' = <<>> THEN "returned" ELSE "loop"
    /\ UNCHANGED <<analysis_df, cluster_idx, llm_replies, llm_responses,
                   crime_analysis>>
    /\ UNCHANGED analyzerRest

\* One iteration of the loop at crimedataanalyzer.py:361-402 in which the LLM
\* gives no text: the cluster is skipped.
SkipCluster ==
    /\ apc = "loop"
    /\ cluster_idx < Len(clusters_info)
    /\ llm_replies' = Append(llm_replies, "")
    /\ cluster_idx' = cluster_idx + 1
    /\ UNCHANGED <<analysis_df, clusters_info, llm_responses, crime_analysis, apc>>
    /\ UNCHANGED analyzerRest

\* One iteration of the loop at crimedataanalyzer.py:361-402 in which the LLM
\* gives a text: the response and the cluster record are stored.
StoreCluster ==
    /\ apc = "loop"
    /\ cluster_idx < Len(clusters_info)
    /\ \E llm_response \in LLMReplies \ {""} :
          LET c == clusters_info[cluster_idx + 1]
              cluster_record ==
                  [crime_type |-> upper(c.crime_type),
                   coordinates |-> <<c.center_lat, RatInt(0)>>,
                   incident_count |-> c.count,
                   description |-> llm_response]
          IN  /\ llm_replies' = Append(llm_replies, llm_response)
              /\ llm_responses' =
                     insert_llm_response(ensure_llm_response_table(llm_responses),
                                         "All Time", c.crime_type, llm_response)
              /\ crime_analysis' =
                     insert_cluster(ensure_crime_analysis_table(crime_analysis),
                                    cluster_record)
    /\ cluster_idx' = cluster_idx + 1
    /\ UNCHANGED <<analysis_df, clusters_info, apc>>
    /\ UNCHANGED analyzerRest

\* The loop is over.
FinishAnalysis ==
    /\ apc = "loop"
    /\ cluster_idx = Len(clusters_info)
    /\ apc' = "done"
    /\ UNCHANGED <<analysis_df, clusters_info, cluster_idx, llm_replies,
                   llm_responses, crime_analysis>>
    /\ UNCHANGED analyzerRest

NextAnalyzer == GroupClusters \/ SkipCluster \/ StoreCluster \/ FinishAnalysis

SpecAnalyzer == InitAnalyzer /\ [][NextAnalyzer]_vars

-----------------------------------------------------------------------------
(* listingmarketexceptionality.py: run_analysis, get_market_assessment      *)
(*                                                                         *)
(* Table listing_analysis is the sequence of its rows here; of the columns *)
(* of a row the address, the coordinates, market_exceptionality and        *)
(* analyzed_at are kept.  A text is a string; words() gives its words, so  *)
(* that lower() and the substring test `in` are computed on the words.     *)

\* max_retries=3, listingmarketexceptionality.py:136
max_retries_four == 4

max_retries == 3

\* The words of the texts that occur below.
words(text) ==
    CASE text = "Good deal" -> <<"Good", "deal">>
      [] text = "This is a BAD deal" -> <<"This", "is", "a", "BAD", "deal">>
      [] text = "Average deal, not a bad deal" ->
             <<"Average", "deal", "not", "a", "bad", "deal">>
      [] text = "Fair price" -> <<"Fair", "price">>
      [] text = "Average deal" -> <<"Average", "deal">>
      [] text = "Bad deal" -> <<"Bad", "deal">>
      [] text = "Low Crime Impact" -> <<"Low", "Crime", "Impact">>
      [] text = "High Crime Impact" -> <<"High", "Crime", "Impact">>
      [] text = "low crime impact" -> <<"low", "crime", "impact">>
      [] text = "good" -> <<"good">>
      [] text = "Top Pick" -> <<"Top", "Pick">>
      [] text = "Not top pick" -> <<"Not", "top", "pick">>
      [] text = "not top pick" -> <<"not", "top", "pick">>
      [] text = "I cannot say" -> <<"I", "cannot", "say">>
      [] text = "good deal" -> <<"good", "deal">>
      [] text = "average deal" -> <<"average", "deal">>
      [] text = "bad deal" -> <<"bad", "deal">>
      [] OTHER -> <<>>

lower_word(w) ==
    CASE w = "Good" -> "good"
      [] w = "BAD" -> "bad"
      [] w = "Bad" -> "bad"
      [] w = "Low" -> "low"
      [] w = "High" -> "high"
      [] w = "Crime" -> "crime"
      [] w = "Impact" -> "impact"
      [] w = "Top" -> "top"
      [] w = "Pick" -> "pick"
      [] w = "Not" -> "not"
      [] w = "I" -> "i"
      [] w = "Average" -> "average"
      [] w = "This" -> "this"
      [] w = "Fair" -> "fair"
      [] OTHER -> w

\* str.lower()
lower(ws) == [i \in DOMAIN ws |-> lower_word(ws[i])]

\* phrase in text
Contains(ws, phrase) ==
    \E i \in 0..(Len(ws) - Len(phrase)) :
        SubSeq(ws, i + 1, i + Len(phrase)) = phrase

\* What the LLM may reply (the text of response.json()['response'], stripped).
MarketReplies ==
    {"Good deal", "This is a BAD deal", "Average deal, not a bad deal",
     "Fair price", ""}

\* listingmarketexceptionality.py:158
valid_choices == {"good deal", "average deal", "bad deal"}

Capitalized(choice) ==
    CASE choice = "good deal" -> "Good deal"
      [] choice = "average deal" -> "Average deal"
      [] choice = "bad deal" -> "Bad deal"

\* get_market_assessment after call_ollama (listingmarketexceptionality.py:
\* 153-168): what it may return for a response text; "None" stands for None.
\* The loop goes through the set valid_choices in an order Python does not
\* fix, so a text with several of the phrases may give any of them.
assessments_of(response_text) ==
    LET found == {choice \in valid_choices :
                     Contains(lower(words(response_text)), words(choice))}
    IN  IF response_text = "" \/ found = {} THEN {"None"}
        ELSE {Capitalized(choice) : choice \in found}

\* pd.isna
isna(x) == x \in {NULL, NaN}

\* pd.to_numeric(errors='coerce') of a coordinate read from the database
coerce(x) == IF x = NULL THEN NaN ELSE x

\* Mutant: the existence check answers False, whatever the table holds.
analysis_exists_never(table, address) == FALSE

\* listingmarketexceptionality.py:58-75
analysis_exists(table, address) ==
    \E k \in DOMAIN table : table[k].address = address

\* insert_analysis: INSERT OR IGNORE under PRIMARY KEY(address), after the
\* coordinates are coerced (listingmarketexceptionality.py:92-117)
insert_analysis(table, address, latitude, longitude, assessment) ==
    LET lat == coerce(latitude)
        lon == coerce(longitude)
    IN  IF isna(lat) \/ isna(lon) THEN table
        ELSE IF \E k \in DOMAIN table : table[k].address = address THEN table
        ELSE Append(table, [address |-> address, latitude |-> lat,
                            longitude |-> lon,
                            market_exceptionality |-> assessment,
                            analyzed_at |-> "now"])

MaxMarketListings == 2

\* The rows get_all_listings returns: with or without coordinates, with or
\* without comparable listings in the city.
MarketRows ==
    [address : {"1 Elm St", "2 Oak Ave"}, latitude : {10, NULL}, longitude : {20},
     comparables : {0, 2}]

MarketListings == UNION {[1..k -> MarketRows] : k \in 1..MaxMarketListings}

\* The rows listing_analysis may hold from earlier runs.
StoredAnalyses ==
    {<<>>, <<[address |-> "1 Elm St", latitude |-> 10, longitude |-> 20,
              market_exceptionality |-> "Bad deal", analyzed_at |-> "earlier"]>>}

marketRest == <<crime_data, crimes_df, properties_df, scores, analyses,
                crime_impact, pc, crime_areas, update_idx, runs,
                crime_data_df, utm_crs, group_idx, geo_dfs, clustered_gdf, cpc,
                gdf, save_idx, crime_areas_tbl, spc, filesVars,
                ingestVars, analyzerVars, picksVars>>

InitMarket ==
    /\ crime_data = <<>> /\ crimes_df = <<>> /\ properties_df = <<>>
    /\ scores = <<>> /\ analyses = <<>> /\ crime_impact = <<>> /\ pc = "idle"
    /\ crime_areas = {} /\ update_idx = 0 /\ runs = 0
    /\ crime_data_df = <<>> /\ utm_crs = -1 /\ group_idx = 0
    /\ geo_dfs = <<>> /\ clustered_gdf = <<>> /\ cpc = "idle"
    /\ gdf = <<>> /\ save_idx = 0 /\ crime_areas_tbl = <<>> /\ spc = "idle"
    /\ FilesIdle
    /\ IngestIdle
    /\ AnalyzerIdle
    /\ PicksIdle
    /\ listing_analysis \in StoredAnalyses
    /\ market_listings \in MarketListings
    /\ market_idx = 0
    /\ attempt_log = <<>>
    /\ listing_log = <<>>
    /\ mpc = "start"

\* listingmarketexceptionality.py:264-270: ensure_analysis_table,
\* get_all_listings
StartMarket ==
    /\ mpc = "start"
    /\ mpc' = IF market_listings = <<>> THEN "done" ELSE "next"
    /\ UNCHANGED <<listing_analysis, market_listings, market_idx, attempt_log,
                   listing_log>>
    /\ UNCHANGED marketRest

\* Why run_analysis passes a listing over before any request, "" if it does
\* not (listingmarketexceptionality.py:278-299).
skip_reason(table, listing) ==
    IF analysis_exists(table, listing.address) THEN "exists"
    ELSE IF isna(listing.latitude) \/ isna(listing.longitude) THEN "coordinates"
    ELSE IF listing.comparables < 1 THEN "comparables"
    ELSE ""

LogEntry(listing, step, requests, assessment, inserted) ==
    [address |-> listing.address, latitude |-> listing.latitude,
     longitude |-> listing.longitude, step |-> step, requests |-> requests,
     assessment |-> assessment, inserted |-> inserted]

\* One iteration of the loop at listingmarketexceptionality.py:273 that ends
\* in one of the `continue`s before the prompt is built.
SkipListing ==
    /\ mpc = "next"
    /\ market_idx < Len(market_listings)
    /\ LET listing == market_listings[market_idx + 1]
           reason  == skip_reason(listing_analysis, listing)
       IN  /\ reason # ""
           /\ listing_log' =
                  Append(listing_log, LogEntry(listing, reason, <<>>, "None", FALSE))
    /\ market_idx' = market_idx + 1
    /\ UNCHANGED <<listing_analysis, market_listings, attempt_log, mpc>>
    /\ UNCHANGED marketRest

\* listingmarketexceptionality.py:301-324: the prompt is built and
\* get_market_assessment is entered.
BeginAssessment ==
    /\ mpc = "next"
    /\ market_idx < Len(market_listings)
    /\ skip_reason(listing_analysis, market_listings[market_idx + 1]) = ""
    /\ attempt_log' = <<>>
    /\ mpc' = "request"
    /\ UNCHANGED <<listing_analysis, market_listings, market_idx, listing_log>>
    /\ UNCHANGED marketRest

\* One attempt of call_ollama that raises (listingmarketexceptionality.py:
\* 137-150).  After the last attempt call_ollama returns None, so does
\* get_market_assessment, and run_analysis goes on to the next listing.
RequestFails ==
    /\ mpc = "request"
    /\ Len(attempt_log) < max_retries
    /\ attempt_log' = Append(attempt_log, [ok |-> FALSE, text |-> ""])
    /\ IF Len(attempt_log') < max_retries
       THEN UNCHANGED <<listing_log, market_idx, mpc>>
       ELSE /\ listing_log' =
                   Append(listing_log,
                          LogEntry(market_listings[market_idx + 1], "assessed",
                                   attempt_log', "None", FALSE))
            /\ market_idx' = market_idx + 1
            /\ mpc' = "next"
    /\ UNCHANGED <<listing_analysis, market_listings>>
    /\ UNCHANGED marketRest

\* One attempt of call_ollama that completes: the text is classified and,
\* with a classification, insert_analysis is called
\* (listingmarketexceptionality.py:137-147, 153-168, 325-339).
RequestCompletes ==
    /\ mpc = "request"
    /\ Len(attempt_log) < max_retries
    /\ \E response_text \in MarketReplies :
       \E assessment \in assessments_of(response_text) :
          LET listing == market_listings[market_idx + 1]
              table   == IF assessment = "None" THEN listing_analysis
                         ELSE insert_analysis(listing_analysis, listing.address,
                                              listing.latitude, listing.longitude,
                                              assessment)
          IN  /\ attempt_log' =
                     Append(attempt_log, [ok |-> TRUE, text |-> response_text])
              /\ listing_analysis' = table
              /\ listing_log' =
                     Append(listing_log,
                            LogEntry(listing, "assessed", attempt_log', assessment,
                                     table # listing_analysis))
    /\ market_idx' = market_idx + 1
    /\ mpc' = "next"
    /\ UNCHANGED market_listings
    /\ UNCHANGED marketRest

\* The loop over the listings is over.
FinishMarket ==
    /\ mpc = "next"
    /\ market_idx = Len(market_listings)
    /\ mpc' = "done"
    /\ UNCHANGED <<listing_analysis, market_listings, market_idx, attempt_log,
                   listing_log>>
    /\ UNCHANGED marketRest

NextMarket ==
    \/ StartMarket
    \/ SkipListing
    \/ BeginAssessment
    \/ RequestFails
    \/ RequestCompletes
    \/ FinishMarket

SpecMarket == InitMarket /\ [][NextMarket]_vars

\* run_analysis is one sequential loop: every request ends, by a reply, an
\* error or the timeout of 60 seconds, so the step that is enabled is taken.
SpecMarketFair == SpecMarket /\ WF_vars(NextMarket)

-----------------------------------------------------------------------------
(* top_picks.py: update_top_picks, analyze_listing; and update_assessment   *)
(* of refinemarketassessments.py, which rewrites market_exceptionality      *)
(* between two runs.                                                        *)
(*                                                                         *)
(* Table listing_analysis is a function from the address, its primary key, *)
(* to the row; the rows come out of the query in the order of AddressOrder *)
(* (ORDER BY price DESC).                                                   *)

MaxPickListings == 2

MaxPickRuns == 2

\* The rows of listing_analysis before the first run: the column top_pick
\* was just added and is NULL.
PickRows ==
    [market_exceptionality : {"Good deal", "Bad deal", NullText},
     crime_impact : {"Low Crime Impact", "High Crime Impact", NullText},
     top_pick : {NullText}, analyzed_at : {"earlier"}]

\* What the LLM may reply.
PickReplies == {"Top Pick", "Not top pick", "I cannot say"}

\* What the request of analyze_listing may come to: a reply with status 200,
\* another status, or an exception.
PickOutcomes ==
    {[kind |-> "reply", text |-> t] : t \in PickReplies}
        \cup {[kind |-> "status", text |-> ""], [kind |-> "error", text |-> ""]}

\* top_picks.py:81-82
is_good_market(row) ==
    Contains(lower(words(row.market_exceptionality)), words("good"))

is_low_crime(row) ==
    Contains(lower(words(row.crime_impact)), words("low crime impact"))

\* The query of top_picks.py:207-221: the addresses it selects.
select_for_picks(table) ==
    LET selected(a) ==
            /\ a \in DOMAIN table
            /\ table[a].market_exceptionality # NullText
            /\ table[a].crime_impact # NullText
            /\ \/ table[a].top_pick = NullText
               \/ /\ table[a].top_pick # "Top Pick"
                  /\ table[a].analyzed_at = "earlier"
    IN  SelectSeq(AddressOrder, selected)

\* refinemarketassessments.py:13
VALID_CHOICES == {"good deal", "average deal", "bad deal"}

\* UPDATE listing_analysis SET top_pick = ?, analyzed_at = datetime('now')
\* WHERE address = ?
set_top_pick(table, address, value) ==
    [a \in DOMAIN table |->
        IF a = address
        THEN [table[a] EXCEPT !.top_pick = value, !.analyzed_at = "now"]
        ELSE table[a]]

\* refinemarketassessments.py:150-159: UPDATE listing_analysis SET
\* market_exceptionality = ?, analyzed_at = datetime('now') WHERE address = ?
update_assessment(table, address, new_assessment) ==
    [a \in DOMAIN table |->
        IF a = address
        THEN [table[a] EXCEPT !.market_exceptionality = new_assessment,
                              !.analyzed_at = "now"]
        ELSE table[a]]

picksRest == <<crime_data, crimes_df, properties_df, scores, analyses,
               crime_impact, pc, crime_areas, update_idx, runs,
               crime_data_df, utm_crs, group_idx, geo_dfs, clustered_gdf, cpc,
               gdf, save_idx, crime_areas_tbl, spc, filesVars,
               ingestVars, analyzerVars, marketVars>>

InitPicks ==
    /\ crime_data = <<>> /\ crimes_df = <<>> /\ properties_df = <<>>
    /\ scores = <<>> /\ analyses = <<>> /\ crime_impact = <<>> /\ pc = "idle"
    /\ crime_areas = {} /\ update_idx = 0 /\ runs = 0
    /\ crime_data_df = <<>> /\ utm_crs = -1 /\ group_idx = 0
    /\ geo_dfs = <<>> /\ clustered_gdf = <<>> /\ cpc = "idle"
    /\ gdf = <<>> /\ save_idx = 0 /\ crime_areas_tbl = <<>> /\ spc = "idle"
    /\ FilesIdle
    /\ IngestIdle
    /\ AnalyzerIdle
    /\ MarketIdle
    /\ listing_analysis \in
           UNION {[{AddressOrder[i] : i \in 1..k} -> PickRows] :
                     k \in 1..MaxPickListings}
    /\ picks_df = <<>>
    /\ pick_idx = 0
    /\ pick_log = <<>>
    /\ pick_runs = 1
    /\ tpc = "start"

\* top_picks.py:191-225: the column is ensured and the rows are selected
StartPicks ==
    /\ tpc = "start"
    /\ picks_df' = select_for_picks(listing_analysis)
    /\ tpc' = IF picks_df' = <<>> THEN "returned" ELSE "loop"
    /\ UNCHANGED <<listing_analysis, pick_idx, pick_log, pick_runs>>
    /\ UNCHANGED picksRest

\* analyze_listing for a row that does not meet the basic criteria
\* (top_picks.py:84-96): top_pick is set to NULL.
ClearListing ==
    /\ tpc = "loop"
    /\ pick_idx < Len(picks_df)
    /\ LET address == picks_df[pick_idx + 1]
           row     == listing_analysis[address]
       IN  /\ ~(is_good_market(row) /\ is_low_crime(row))
           /\ listing_analysis' = set_top_pick(listing_analysis, address, NullText)
           /\ pick_log' = Append(pick_log, [address |-> address, qualified |-> FALSE,
                                            kind |-> "none", text |-> ""])
    /\ pick_idx' = pick_idx + 1
    /\ UNCHANGED <<picks_df, pick_runs, tpc>>
    /\ UNCHANGED picksRest

\* analyze_listing for a row that meets the basic criteria (top_picks.py:
\* 98-184): the LLM is asked; with status 200 the row is written.
RequestPick ==
    /\ tpc = "loop"
    /\ pick_idx < Len(picks_df)
    /\ LET address == picks_df[pick_idx + 1]
           row     == listing_analysis[address]
       IN  /\ is_good_market(row) /\ is_low_crime(row)
           /\ \E outcome \in PickOutcomes :
                 /\ listing_analysis' =
                        IF outcome.kind # "reply" THEN listing_analysis
                        ELSE IF ~Contains(lower(words(outcome.text)),
                                          words("not top pick"))
                        THEN set_top_pick(listing_analysis, address, "Top Pick")
                        ELSE set_top_pick(listing_analysis, address, NullText)
                 /\ pick_log' = Append(pick_log,
                                       [address |-> address, qualified |-> TRUE,
                                        kind |-> outcome.kind, text |-> outcome.text])
    /\ pick_idx' = pick_idx + 1
    /\ UNCHANGED <<picks_df, pick_runs, tpc>>
    /\ UNCHANGED picksRest

\* top_picks.py:231-262: the loop is over
FinishPicks ==
    /\ tpc = "loop"
    /\ pick_idx = Len(picks_df)
    /\ tpc' = "done"
    /\ UNCHANGED <<listing_analysis, picks_df, pick_idx, pick_log, pick_runs>>
    /\ UNCHANGED picksRest

\* Between two runs refinemarketassessments.py reassesses a listing and
\* stores another classification (refinemarketassessments.py:201-203).
Reassess ==
    /\ tpc \in {"done", "returned", "idle"}
    /\ pick_runs < MaxPickRuns
    /\ \E address \in DOMAIN listing_analysis :
       \E new_assessment \in VALID_CHOICES :
          /\ listing_analysis[address].market_exceptionality # NullText
          /\ new_assessment # listing_analysis[address].market_exceptionality
          /\ listing_analysis' =
                 update_assessment(listing_analysis, address, new_assessment)
    /\ tpc' = "idle"
    /\ UNCHANGED <<picks_df, pick_idx, pick_log, pick_runs>>
    /\ UNCHANGED picksRest

\* top_picks.py:270-273: the script is run once more
RunPicksAgain ==
    /\ tpc \in {"done", "returned", "idle"}
    /\ pick_runs < MaxPickRuns
    /\ pick_runs' = pick_runs + 1
    /\ picks_df' = <<>>
    /\ pick_idx' = 0
    /\ pick_log' = <<>>
    /\ tpc' = "start"
    /\ UNCHANGED listing_analysis
    /\ UNCHANGED picksRest

NextPicks ==
    \/ StartPicks
    \/ ClearListing
    \/ RequestPick
    \/ FinishPicks
    \/ Reassess
    \/ RunPicksAgain

SpecPicks == InitPicks /\ [][NextPicks]_vars

-----------------------------------------------------------------------------
(* Properties of calculate_crime_impact, stated on the calls made by the   *)
(* scoring loop.  The counts below are taken from the loaded incidents     *)
(* directly, with distances in units (UnitsPerMile units to the mile).     *)

Scored == 1..Len(scores)

\* The rows of df of a category in cats at most num/den miles from latitude lat.
RowsWithin(df, lat, num, den, cats) ==
    {r \in DOMAIN df : /\ r.crime_type \in cats
                       /\ Abs(r.latitude - lat) * den <= num * UnitsPerMile}

ImmediateCount(i, cats) ==
    SumCounts(crimes_df, RowsWithin(crimes_df, properties_df[i].latitude, 1, 4, cats))

GeneralCount(i, cats) ==
    SumCounts(crimes_df, RowsWithin(crimes_df, properties_df[i].latitude, 2, 1, cats))

MinusOne == [n |-> -1, d |-> 1]
Zero     == [n |-> 0, d |-> 1]
Half     == [n |-> 1, d |-> 2]
One      == [n |-> 1, d |-> 1]

\* C1: the score is -1 exactly when the incident set is empty or no incident
\* lies within 2.0 miles of the query point; then the analysis carries only a
\* note (no counts, no densities); in every other case the score is not -1.
C1_InsufficientData ==
    \A i \in Scored :
        LET nodata == \/ DOMAIN crimes_df = {}
                      \/ GeneralCount(i, Categories) = 0
        IN  /\ (scores[i] = MinusOne) <=> nodata
            /\ nodata => DOMAIN analyses[i] = {"note"}
            /\ ~nodata => "note" \notin DOMAIN analyses[i]

\* C1 witness: one run scores a property -1 although incidents are stored, and
\* another property of the same run gets a score other than -1.
C1_Witness ==
    \E i, j \in Scored :
        /\ scores[i] = MinusOne
        /\ DOMAIN crimes_df # {}
        /\ scores[j] # MinusOne

\* C2: with a non-empty general subset the score is 0 iff relative_density
\* < 0.75, 0.5 iff 0.75 <= relative_density < 1.5 and 1 iff relative_density
\* >= 1.5; the score is always one of -1, 0, 0.5, 1.
C2_Thresholds ==
    \A i \in Scored :
        /\ scores[i] \in {MinusOne, Zero, Half, One}
        /\ GeneralCount(i, Categories) > 0 =>
             LET rd == analyses[i].relative_density
             IN  /\ (scores[i] = Zero) <=> (4 * rd.n < 3 * rd.d)
                 /\ (scores[i] = Half) <=> (4 * rd.n >= 3 * rd.d /\ 2 * rd.n < 3 * rd.d)
                 /\ (scores[i] = One)  <=> (2 * rd.n >= 3 * rd.d)

\* C2 witness: a property whose relative density is exactly 0.75 scores 0.5 and
\* another property of the run, just below 0.75, scores 0.
C2_Witness ==
    \E i, j \in Scored :
        /\ scores[i] = Half /\ analyses[i].relative_density = [n |-> 3, d |-> 4]
        /\ scores[j] = Zero /\ analyses[j].relative_density.n > 0

\* C3: relative_density = immediate_density / general_density whenever
\* general_density > 0, otherwise the score is -1; the densities are
\* count / (pi r^2) for r = 0.25 and r = 2.0, so the ratio is
\* 64 * immediate_count / general_count; 1 immediate incident of 10 general
\* ones gives 6.4 and score 1.
C3_RelativeDensity ==
    \A i \in Scored :
        LET a  == analyses[i]
            ic == ImmediateCount(i, Categories)
            gc == GeneralCount(i, Categories)
        IN  IF "general_density" \in DOMAIN a /\ a.general_density.n > 0
            THEN /\ a.immediate_density.n = 16 * ic * a.immediate_density.d
                 /\ 4 * a.general_density.n = gc * a.general_density.d
                 /\ a.relative_density.n * a.immediate_density.d * a.general_density.n
                      = a.relative_density.d * a.immediate_density.n * a.general_density.d
                 /\ a.relative_density.n * gc = 64 * ic * a.relative_density.d
                 /\ (ic = 1 /\ gc = 10) =>
                       /\ a.relative_density = [n |-> 32, d |-> 5]
                       /\ scores[i] = One
            ELSE scores[i] = MinusOne

\* C3 witness: the scenario of 1 immediate incident among 10 general ones.
C3_Witness ==
    \E i \in Scored :
        /\ ImmediateCount(i, Categories) = 1
        /\ GeneralCount(i, Categories) = 10
        /\ analyses[i].relative_density = [n |-> 32, d |-> 5]

\* C4: every incident counted in the immediate subset is counted in the
\* general subset, so immediate_count <= general_count in every analysis.
C4_ImmediateWithinGeneral ==
    \A i \in Scored :
        LET row == properties_df[i]
        IN  /\ immediate_crimes(row.latitude, row.longitude, crimes_df)
                 \sqsubseteq general_crimes(row.latitude, row.longitude, crimes_df)
            /\ "immediate_crimes" \in DOMAIN analyses[i] =>
                 analyses[i].immediate_crimes <= analyses[i].general_crimes

\* C4 witness: an analysis with incidents in the immediate subset and more in
\* the general subset.
C4_Witness ==
    \E i \in Scored :
        /\ "immediate_crimes" \in DOMAIN analyses[i]
        /\ 0 < analyses[i].immediate_crimes
        /\ analyses[i].immediate_crimes < analyses[i].general_crimes

ClustersOf(a) == IF "crime_clusters" \in DOMAIN a THEN a.crime_clusters ELSE <<>>

\* C6: the per-category map holds exactly the categories that occur in the
\* immediate subset, whose general density is > 0 and whose relative category
\* density is strictly greater than 1.5, each mapped to that relative density
\* (64 * immediate count / general count of the category).
C6_CategoryMap ==
    \A i \in Scored :
        LET m == ClustersOf(analyses[i])
        IN  IF "note" \in DOMAIN analyses[i] THEN DOMAIN m = {}
            ELSE
            /\ DOMAIN m = {c \in Categories :
                             /\ ImmediateCount(i, {c}) > 0
                             /\ GeneralCount(i, {c}) > 0
                             /\ 2 * 64 * ImmediateCount(i, {c}) > 3 * GeneralCount(i, {c})}
            /\ \A c \in DOMAIN m :
                  m[c].n * GeneralCount(i, {c}) = 64 * ImmediateCount(i, {c}) * m[c].d

\* C6 witness: one category of the immediate subset has relative density
\* exactly 1.5 and is not recorded, another one is recorded.
C6_Witness ==
    \E i \in Scored : \E c, e \in Categories :
        /\ "immediate_crimes" \in DOMAIN analyses[i]
        /\ ImmediateCount(i, {c}) > 0
        /\ 2 * 64 * ImmediateCount(i, {c}) = 3 * GeneralCount(i, {c})
        /\ c \notin DOMAIN ClustersOf(analyses[i])
        /\ e \in DOMAIN ClustersOf(analyses[i])

\* The frame df with the category of every row r replaced by g[r].
Relabel(df, g) ==
    LET rows == {[r EXCEPT !.crime_type = g[r]] : r \in DOMAIN df}
    IN  [x \in rows |->
            SumCounts(df, {r \in DOMAIN df : [r EXCEPT !.crime_type = g[r]] = x})]

\* Frames with the coordinates of df and other category labels: every
\* category renamed by a map f, or the incidents of one row given category c.
Relabellings(df) ==
    {Relabel(df, [r \in DOMAIN df |-> f[r.crime_type]]) :
        f \in [Categories -> Categories]}
    \cup
    {Relabel(df, [r \in DOMAIN df |-> IF r = x THEN c ELSE r.crime_type]) :
        x \in DOMAIN df, c \in Categories}

ScoreFields == {"note", "immediate_crimes", "general_crimes", "immediate_density",
                "general_density", "relative_density"}

\* C7: incident sets with the same coordinates and other category labels give
\* the same score, counts, densities and relative_density for every query
\* point; the labels influence the per-category map only.
C7_LabelsOnlyInMap ==
    \A i \in Scored : \A df \in Relabellings(crimes_df) :
        LET other == calculate_crime_impact(properties_df[i].latitude,
                                            properties_df[i].longitude, df)
        IN  /\ other.score = scores[i]
            /\ DOMAIN other.analysis \cap ScoreFields = DOMAIN analyses[i] \cap ScoreFields
            /\ \A k \in DOMAIN analyses[i] \cap ScoreFields :
                  other.analysis[k] = analyses[i][k]

\* C7 witness: a relabelling changes the per-category map of a scored property.
C7_Witness ==
    \E i \in Scored : \E df \in Relabellings(crimes_df) :
        /\ scores[i] # MinusOne
        /\ ClustersOf(calculate_crime_impact(properties_df[i].latitude,
                                             properties_df[i].longitude, df).analysis)
             # ClustersOf(analyses[i])

-----------------------------------------------------------------------------
(* Properties of process_crime_data.                                       *)

Range(f) == {f[x] : x \in DOMAIN f}

\* Every polygon built so far in the run, and every polygon returned.
AllPolygons == Range(concat(geo_dfs)) \cup Range(clustered_gdf)

\* Row k of df has no other row of its crime type within eps in the
\* projection crs: DBSCAN labels it noise.
IsNoise(df, crs, k) ==
    \A j \in DOMAIN df \ {k} :
        df[j].crime_type = df[k].crime_type =>
            ProjectedDistance(crs, df[k].lon, df[j].lon) > eps * 1000

\* C8: every polygon derives from at least 2 incidents; an incident that
\* DBSCAN labels as noise is a member of no polygon, its buffered disc is part
\* of no polygon of its category, and it yields no polygon of its own.
C8_NoPolygonFromNoise ==
    cpc # "start" =>
        /\ \A poly \in AllPolygons : Cardinality(poly.members) >= 2
        /\ \A k \in DOMAIN crime_data_df :
              IsNoise(crime_data_df, utm_crs, k) =>
                  \A poly \in AllPolygons :
                      /\ k \notin poly.members
                      /\ poly.crime_type = crime_data_df[k].crime_type =>
                            Buffer(utm_crs, crime_data_df[k].lon) \notin poly.geometry

\* C8 witness: a finished run that returns a polygon of a crime type of which
\* another incident is noise.
C8_Witness ==
    /\ cpc = "done"
    /\ \E poly \in Range(clustered_gdf) : \E k \in DOMAIN crime_data_df :
          /\ crime_data_df[k].crime_type = poly.crime_type
          /\ IsNoise(crime_data_df, utm_crs, k)

\* C9: all incidents merged into one polygon have the polygon's crime_type;
\* incidents of different crime types are never merged into one polygon,
\* also when they are at the same location.
C9_OneCategoryPerPolygon ==
    \A poly \in AllPolygons :
        /\ \A k \in poly.members : crime_data_df[k].crime_type = poly.crime_type
        /\ \A k, j \in poly.members :
              crime_data_df[k].crime_type = crime_data_df[j].crime_type

\* C9 witness: incidents of two crime types at one location, each type with
\* its own returned polygon.
C9_Witness ==
    /\ cpc = "done"
    /\ \E p, q \in Range(clustered_gdf) :
          /\ p.crime_type # q.crime_type
          /\ \E k \in p.members : \E j \in q.members :
                crime_data_df[k].lon = crime_data_df[j].lon

\* df without its row k
RemoveRow(df, k) == SubSeq(df, 1, k - 1) \o SubSeq(df, k + 1, Len(df))

\* The polygons of a returned frame as (category, members, geometry), the
\* members given by their coordinates with multiplicity.
PolygonSet(df, frame) ==
    {[crime_type |-> poly.crime_type,
      members    |-> [x \in {df[i].lon : i \in poly.members} |->
                         Cardinality({i \in poly.members : df[i].lon = x})],
      geometry   |-> poly.geometry] : poly \in Range(frame)}

\* C10 (as claimed): removing a noise point from the input never changes the
\* set of (category, member set, geometry) polygons process_crime_data returns.
C10_NoiseRemovalKeepsPolygons ==
    cpc = "done" =>
        \A k \in DOMAIN crime_data_df :
            (Len(crime_data_df) >= 2 /\ IsNoise(crime_data_df, utm_crs, k)) =>
                PolygonSet(RemoveRow(crime_data_df, k),
                           process_crime_data(RemoveRow(crime_data_df, k)))
                  = PolygonSet(crime_data_df, clustered_gdf)

\* The same statement for noise points whose removal leaves the estimated
\* UTM zone as it was: it is the change of zone that changes the polygons.
NoiseRemovalSameZone ==
    cpc = "done" =>
        \A k \in DOMAIN crime_data_df :
            (/\ Len(crime_data_df) >= 2
             /\ IsNoise(crime_data_df, utm_crs, k)
             /\ estimate_utm_crs(RemoveRow(crime_data_df, k)) = utm_crs) =>
                PolygonSet(RemoveRow(crime_data_df, k),
                           process_crime_data(RemoveRow(crime_data_df, k)))
                  = PolygonSet(crime_data_df, clustered_gdf)

-----------------------------------------------------------------------------
(* Properties of the clusters of one category.                             *)

\* The rows of df of one crime type.
RowsOf(df, crime_type) == {i \in DOMAIN df : df[i].crime_type = crime_type}

\* Two rows within eps of each other in the projection crs.
Linked(df, crs, i, j) ==
    ProjectedDistance(crs, df[i].lon, df[j].lon) <= eps * 1000

\* The rows of `rows` joined to a row of S by a chain of linked rows.
RECURSIVE Component(_, _, _, _)
Component(df, crs, rows, S) ==
    LET more == S \cup {j \in rows : \E i \in S : Linked(df, crs, i, j)}
    IN  IF more = S THEN S ELSE Component(df, crs, rows, more)

\* The connected components of at least two rows of one crime type.
Components(df, crs, crime_type) ==
    {C \in {Component(df, crs, RowsOf(df, crime_type), {k}) :
                k \in RowsOf(df, crime_type)} : Cardinality(C) >= 2}

\* The positions of the polygons of one crime type in the returned frame.
PolygonsOf(frame, crime_type) ==
    {k \in DOMAIN frame : frame[k].crime_type = crime_type}

\* Two burglaries 50 m apart and one arson 5 km away, in any row order.
IsolatedArsonScenario(df) ==
    /\ Len(df) = 3
    /\ Range(df) = {[crime_type |-> "BURGLARY", lat |-> 0, lon |-> 333958],
                    [crime_type |-> "BURGLARY", lat |-> 0, lon |-> 334008],
                    [crime_type |-> "ARSON", lat |-> 0, lon |-> 338958]}

\* C11: within one category the member sets of the returned polygons are
\* exactly the connected components, of two or more incidents, of the graph
\* that links incidents within 300 m of projected distance, one polygon per
\* component, and a polygon is the union of the buffered discs of its
\* members; so two incidents of one category within 300 m are members of one
\* and the same polygon, an isolated incident gives no polygon, and two
\* burglaries 50 m apart with one arson 5 km away give exactly one polygon,
\* of category BURGLARY.
C11_ClustersAreComponents ==
    cpc = "done" =>
        /\ \A c \in Categories :
              LET polys == PolygonsOf(clustered_gdf, c)
                  comps == Components(crime_data_df, utm_crs, c)
              IN  /\ {clustered_gdf[k].members : k \in polys} = comps
                  /\ Cardinality(polys) = Cardinality(comps)
                  /\ \A k \in polys :
                        clustered_gdf[k].geometry =
                            {Buffer(utm_crs, crime_data_df[i].lon) :
                                i \in clustered_gdf[k].members}
                  /\ \A i, j \in RowsOf(crime_data_df, c) :
                        i # j /\ Linked(crime_data_df, utm_crs, i, j) =>
                            Cardinality({k \in polys :
                                {i, j} \subseteq clustered_gdf[k].members}) = 1
        /\ IsolatedArsonScenario(crime_data_df) =>
              /\ Len(clustered_gdf) = 1
              /\ clustered_gdf[1].crime_type = "BURGLARY"
              /\ Cardinality(clustered_gdf[1].members) = 2

\* The scenario has run: one burglary polygon of two discs, the arson alone.
C11_Witness ==
    /\ cpc = "done"
    /\ IsolatedArsonScenario(crime_data_df)
    /\ Len(clustered_gdf) = 1
    /\ clustered_gdf[1].crime_type = "BURGLARY"
    /\ Cardinality(clustered_gdf[1].geometry) = 2

\* No two distinct rows of the crime type are within eps of each other (so
\* also: the type has fewer than two rows).
AllApart(df, crs, crime_type) ==
    \A i, j \in RowsOf(df, crime_type) :
        i # j => ~Linked(df, crs, i, j)

\* The crime types the loop over the groups has already taken.
TypesTaken == {grouped(crime_data_df)[k] : k \in 1..group_idx}

C13_ClusterKeyUnique ==
    cpc = "done" =>
        /\ \A i, j \in DOMAIN clustered_gdf :
              i # j => <<clustered_gdf[i].crime_type, clustered_gdf[i].cluster_id>>
                        # <<clustered_gdf[j].crime_type, clustered_gdf[j].cluster_id>>
        /\ \A c \in Categories :
              {clustered_gdf[k].cluster_id : k \in PolygonsOf(clustered_gdf, c)} =
                  0..(Cardinality(PolygonsOf(clustered_gdf, c)) - 1)

\* One category has two polygons, with different ids.
C13_Witness ==
    /\ cpc = "done"
    /\ \E i, j \in DOMAIN clustered_gdf :
          /\ clustered_gdf[i].crime_type = clustered_gdf[j].crime_type
          /\ clustered_gdf[i].cluster_id = 0
          /\ clustered_gdf[j].cluster_id = 1

\* The polygons of one crime type in a returned frame.
PolygonSetOf(df, frame, crime_type) ==
    {poly \in PolygonSet(df, frame) : poly.crime_type = crime_type}

\* C14 (as claimed): the polygons of a category, member sets and merged
\* geometry, are the same when an incident of another category is removed
\* from the input.
C14_OtherCategoriesIrrelevant ==
    cpc = "done" =>
        \A c \in Categories : \A k \in DOMAIN crime_data_df :
            (Len(crime_data_df) >= 2 /\ crime_data_df[k].crime_type # c) =>
                PolygonSetOf(RemoveRow(crime_data_df, k),
                             process_crime_data(RemoveRow(crime_data_df, k)), c)
                  = PolygonSetOf(crime_data_df, clustered_gdf, c)

\* The same statement for removals that leave the estimated UTM zone as it
\* was: within one projection the categories do not influence each other.
OtherCategoriesSameZone ==
    cpc = "done" =>
        \A c \in Categories : \A k \in DOMAIN crime_data_df :
            (/\ Len(crime_data_df) >= 2
             /\ crime_data_df[k].crime_type # c
             /\ estimate_utm_crs(RemoveRow(crime_data_df, k)) = utm_crs) =>
                PolygonSetOf(RemoveRow(crime_data_df, k),
                             process_crime_data(RemoveRow(crime_data_df, k)), c)
                  = PolygonSetOf(crime_data_df, clustered_gdf, c)

-----------------------------------------------------------------------------
(* Rows without coordinates.                                               *)

\* C16 (as claimed): process_crime_data completes without raising when a row
\* has NaN coordinates, and such a row is a member of no polygon.
C16_NaNTolerated ==
    /\ cpc # "raised"
    /\ cpc = "done" =>
          \A p \in Range(clustered_gdf) : \A i \in p.members :
              IsFinite(crime_data_df[i])

-----------------------------------------------------------------------------
(* Properties of the coverage areas and of the candidate listings.         *)

\* The incidents the queries of a run consider.
Located == recent_located(crime_data)

\* The tenth of a degree a coordinate is cut off to, and the tenth it is
\* rounded to (no coordinate used lies on the middle between two tenths).
TruncTenth(x) ==
    CHOOSE q \in -3..3 :
        IF x >= 0
        THEN q * UnitsPerDegree <= 10 * x /\ 10 * x < (q + 1) * UnitsPerDegree
        ELSE (q - 1) * UnitsPerDegree < 10 * x /\ 10 * x <= q * UnitsPerDegree

RoundTenth(x) ==
    CHOOSE q \in -3..3 :
        /\ (2 * q - 1) * UnitsPerDegree <= 20 * x
        /\ 20 * x < (2 * q + 1) * UnitsPerDegree

\* The bin of the point (latitude, longitude) and its located incidents.
Tenths(latitude, longitude) == <<TruncTenth(latitude), TruncTenth(longitude)>>

BinAt(latitude, longitude) ==
    LET bin == Tenths(latitude, longitude)
    IN  {r \in Located : Tenths(r.latitude, r.longitude) = bin}

\* C17: every reported coverage area has a count greater than 10 that is the
\* number of incidents of its bin, its box contains every incident of the
\* bin, and a bin of 10 or fewer incidents is not reported.
C17_CoverageCounts ==
    pc # "start" =>
        /\ \A area \in crime_areas :
              LET bin == BinAt(area.min_lat, area.min_lon)
              IN  /\ area.crime_count > 10
                  /\ area.crime_count = SumCounts(crime_data, bin)
                  /\ \A r \in bin :
                        /\ area.min_lat <= r.latitude /\ r.latitude <= area.max_lat
                        /\ area.min_lon <= r.longitude /\ r.longitude <= area.max_lon
        /\ \A r \in Located :
              SumCounts(crime_data, BinAt(r.latitude, r.longitude)) <= 10 =>
                  ~\E area \in crime_areas :
                      Tenths(area.min_lat, area.min_lon) = Tenths(r.latitude, r.longitude)

\* A bin of 11 incidents at two places is reported while a bin of exactly 10
\* incidents is not.
C17_Witness ==
    /\ pc # "start"
    /\ \E area \in crime_areas :
          area.crime_count = 11 /\ area.min_lat < area.max_lat
    /\ \E r \in Located :
          /\ SumCounts(crime_data, BinAt(r.latitude, r.longitude)) = 10
          /\ ~\E area \in crime_areas :
                area.min_lat <= r.latitude /\ r.latitude <= area.max_lat

\* Two located incidents are counted in the same group of the query.
SameBin(r1, r2) == group_key(r1) = group_key(r2)

\* C18 (as claimed): two incidents are counted in the same bin if and only if
\* their latitudes round to the same tenth of a degree and their longitudes
\* round to the same tenth of a degree.
C18_BinsByRounding ==
    pc # "start" =>
        \A r1, r2 \in Located :
            SameBin(r1, r2) <=> /\ RoundTenth(r1.latitude) = RoundTenth(r2.latitude)
                                /\ RoundTenth(r1.longitude) = RoundTenth(r2.longitude)

\* What the query does instead: the coordinates are cut off toward zero, so
\* that two incidents share a bin if and only if their coordinates are cut
\* off to the same tenths, and the reported areas are those of these bins.
BinsByTruncation ==
    pc # "start" =>
        /\ \A r1, r2 \in Located :
              SameBin(r1, r2) <=> Tenths(r1.latitude, r1.longitude)
                                    = Tenths(r2.latitude, r2.longitude)
        /\ \A r \in Located :
              SumCounts(crime_data, BinAt(r.latitude, r.longitude)) > 10 =>
                  \E area \in crime_areas :
                      Tenths(area.min_lat, area.min_lon) = Tenths(r.latitude, r.longitude)

\* The selected addresses.
Candidates == {properties_df[i].address : i \in DOMAIN properties_df}

\* 69 * (x - hi) <= 2 * (units in a degree), and the same below lo: x lies in
\* [lo - b, hi + b] for b = 2 / 69 degrees.
InWidened(x, lo, hi) ==
    /\ 69 * (lo - x) <= 2 * UnitsPerDegree
    /\ 69 * (x - hi) <= 2 * UnitsPerDegree

Eligible(a) ==
    /\ listing_analysis[a].crime_impact = NullText
    /\ listing_analysis[a].latitude # NULL
    /\ listing_analysis[a].longitude # NULL

\* C19: once the candidates are selected, a listing with coordinates and
\* without crime_impact is a candidate if and only if it lies in the box of
\* some coverage area widened by b = GENERAL_AREA_MILES / 69 degrees on every
\* side; so every such listing inside an unwidened box is a candidate.
C19_CandidatesInWidenedBoxes ==
    pc \in {"load", "returned"} =>
        /\ \A a \in DOMAIN listing_analysis :
              a \in Candidates <=>
                  /\ Eligible(a)
                  /\ \E area \in crime_areas :
                        /\ InWidened(listing_analysis[a].latitude,
                                     area.min_lat, area.max_lat)
                        /\ InWidened(listing_analysis[a].longitude,
                                     area.min_lon, area.max_lon)
        /\ \A a \in DOMAIN listing_analysis : \A area \in crime_areas :
              (/\ Eligible(a)
               /\ area.min_lat <= listing_analysis[a].latitude
               /\ listing_analysis[a].latitude <= area.max_lat
               /\ area.min_lon <= listing_analysis[a].longitude
               /\ listing_analysis[a].longitude <= area.max_lon)
                  => a \in Candidates
        /\ \A i \in DOMAIN properties_df :
              /\ properties_df[i].latitude =
                    listing_analysis[properties_df[i].address].latitude
              /\ properties_df[i].longitude =
                    listing_analysis[properties_df[i].address].longitude

\* One candidate lies outside every box and inside a widened one, and a
\* listing just beyond the widened boxes is not a candidate.
C19_Witness ==
    /\ pc = "load"
    /\ \E a \in Candidates :
          \A area \in crime_areas :
              ~(/\ area.min_lat <= listing_analysis[a].latitude
                /\ listing_analysis[a].latitude <= area.max_lat
                /\ area.min_lon <= listing_analysis[a].longitude
                /\ listing_analysis[a].longitude <= area.max_lon)
    /\ \E a \in DOMAIN listing_analysis : Eligible(a) /\ a \notin Candidates

-----------------------------------------------------------------------------
(* The order of the steps of update_listing_analysis.                      *)

\* The listings the run has written.
Written ==
    {a \in DOMAIN listing_analysis : listing_analysis[a].analyzed_at = "now"}

\* What holds in every state of a run.
StepOrderState ==
    /\ properties_df # <<>> => crime_areas # {}
    /\ scores # <<>> => properties_df # <<>> /\ pc \in {"score", "update", "done"}
    /\ Written # {} => pc \in {"update", "done"} /\ Len(scores) = Len(properties_df)
    /\ \A a \in Written :
          \E i \in 1..update_idx :
              /\ properties_df[i].address = a
              /\ i \in Scored
              /\ scores[i] = calculate_crime_impact(properties_df[i].latitude,
                                                    properties_df[i].longitude,
                                                    crimes_df).score
              /\ listing_analysis[a].crime_impact =
                    get_crime_category(scores[i], scores)
    /\ pc = "returned" =>
          /\ crime_areas = {} \/ properties_df = <<>>
          /\ scores = <<>>
          /\ Written = {}

\* What holds of every step of a run.
StepOrderStep ==
    /\ crime_areas' # crime_areas => pc = "start"
    /\ properties_df' # properties_df => pc = "select" /\ crime_areas # {}
    /\ scores' # scores => pc = "score" /\ Len(scores) < Len(properties_df)
    /\ listing_analysis' # listing_analysis =>
          /\ pc = "update"
          /\ Len(scores) = Len(properties_df)
          /\ \A a \in DOMAIN listing_analysis :
                listing_analysis'[a] # listing_analysis[a] =>
                    a = properties_df[update_idx + 1].address
    /\ pc' = "returned" => listing_analysis' = listing_analysis /\ scores' = <<>>

\* C20: the steps of update_listing_analysis are taken in the order coverage
\* areas, candidates, scoring, update: a row of listing_analysis is changed
\* only in the update loop, only for a candidate of the run that was scored
\* before, and a run without coverage area or without candidate ends with no
\* score computed and no row changed.
C20_StepOrder == []StepOrderState /\ [][StepOrderStep]_vars

\* A run is over that wrote one candidate and left another candidate, which
\* has no incident within two miles, as it was.
C20_Witness ==
    /\ pc = "done"
    /\ Written # {}
    /\ \E i \in DOMAIN properties_df :
          /\ properties_df[i].address \notin Written
          /\ crime_impact[i] = "Insufficient Data"

-----------------------------------------------------------------------------
(* C21: crime_areas holds no duplicate (crime_type, geometry)               *)

NoDuplicateAreas ==
    \A j, k \in DOMAIN crime_areas_tbl :
        (/\ crime_areas_tbl[j].crime_type = crime_areas_tbl[k].crime_type
         /\ crime_areas_tbl[j].geometry = crime_areas_tbl[k].geometry) => j = k

\* The second file holds the polygons the first file held.
SameFileAgain ==
    /\ Len(csv_files) = 2
    /\ file_idx = 2
    /\ Range(csv_files[1]) = Range(csv_files[2])

SecondSaveStep == SameFileAgain => crime_areas_tbl' = crime_areas_tbl

\* C21: after any sequence of save_to_sqlite calls no two rows of crime_areas
\* have the same (crime_type, geometry), and while the polygons of a file
\* already saved are saved again no step changes the table.
C21_NoDuplicateAreas == []NoDuplicateAreas /\ [][SecondSaveStep]_vars

\* The second save of the same polygons has finished, and the table holds
\* rows: every insert of the second call met a stored row.
C21_Witness ==
    /\ SameFileAgain
    /\ spc = "done"
    /\ save_idx = Len(gdf)
    /\ Len(crime_areas_tbl) >= 2

-----------------------------------------------------------------------------
(* C22: the zero-density guard of calculate_crime_impact is dead            *)

\* The call for property i went past both early returns and computed the
\* relative density.
ReachedDensities(i) == "relative_density" \in DOMAIN analyses[i]

\* C22: whenever calculate_crime_impact reaches the relative-density step the
\* general subset holds at least one incident and the general density is
\* positive, so the branch for a general density of 0 is not the one taken;
\* no result has a nonzero immediate count with a zero general count.
C22_DensityGuardDead ==
    \A i \in Scored :
        /\ (scores[i] # MinusOne) <=> ReachedDensities(i)
        /\ ReachedDensities(i) =>
              /\ analyses[i].general_crimes >= 1
              /\ analyses[i].general_crimes = GeneralCount(i, Categories)
              /\ RatGt(analyses[i].general_density, Zero)
              /\ analyses[i].relative_density =
                     RatDiv(analyses[i].immediate_density,
                            analyses[i].general_density)
              /\ ~(analyses[i].immediate_crimes > 0
                   /\ analyses[i].general_crimes = 0)

\* One run reaches the densities for a property whose only incidents lie
\* outside the immediate area, and returns early for another property.
C22_Witness ==
    /\ \E i \in Scored : /\ ReachedDensities(i)
                         /\ analyses[i].immediate_crimes = 0
                         /\ analyses[i].general_crimes = 1
    /\ \E i \in Scored : /\ ~ReachedDensities(i)
                         /\ ~IsEmpty(crimes_df)

-----------------------------------------------------------------------------
(* C23: the labels update_listing_analysis persists                         *)

\* The candidates the update loop has been through.
Updated == IF pc \in {"update", "done"} THEN 1..update_idx ELSE {}

StoredLabel(i) == listing_analysis[properties_df[i].address].crime_impact

StoredAt(i) == listing_analysis[properties_df[i].address].analyzed_at

\* C23: of the candidates the update loop has been through, one is stored as
\* 'Low Crime Impact' only with score 0, as 'Some Crime Impact' only with
\* score 0.5 and as 'High Crime Impact' only with score 1; a candidate that
\* scored -1 is not written: its crime_impact is still NULL and its
\* analyzed_at is the one it had.
C23_LabelsPersisted ==
    \A i \in Updated :
        /\ scores[i] \in {MinusOne, Zero, Half, One}
        /\ StoredLabel(i) = "Low Crime Impact" <=> scores[i] = Zero
        /\ StoredLabel(i) = "Some Crime Impact" <=> scores[i] = Half
        /\ StoredLabel(i) = "High Crime Impact" <=> scores[i] = One
        /\ StoredLabel(i) = NullText <=> scores[i] = MinusOne
        /\ StoredAt(i) = (IF scores[i] = MinusOne THEN "earlier" ELSE "now")

\* A run is over that stored 'Some Crime Impact' for one candidate and passed
\* over another that scored -1.
C23_Witness ==
    /\ pc = "done"
    /\ \E i \in Updated : scores[i] = Half /\ StoredLabel(i) = "Some Crime Impact"
    /\ \E i \in Updated : scores[i] = MinusOne /\ StoredLabel(i) = NullText

\* Runs store each of the other two labels.
C23_WitnessLowHigh ==
    /\ pc = "done"
    /\ \E i \in Updated : scores[i] = Zero
    /\ \E i \in Updated : scores[i] = One

-----------------------------------------------------------------------------
(* C24: update_listing_analysis leaves assessed listings alone              *)

\* No step changes the crime_impact of a listing that has one, and no step
\* of a later run changes a row.
SecondRunStep ==
    /\ \A a \in DOMAIN listing_analysis :
          listing_analysis[a].crime_impact # NullText =>
              listing_analysis'[a].crime_impact = listing_analysis[a].crime_impact
    /\ runs > 1 => listing_analysis' = listing_analysis

\* The candidates of a run have no crime_impact, and those of a later run
\* were not written by the run before and score -1.
SecondRunState ==
    /\ pc \in {"load", "score"} =>
          \A i \in 1..Len(properties_df) :
              listing_analysis[properties_df[i].address].crime_impact = NullText
    /\ runs > 1 =>
          /\ \A i \in 1..Len(properties_df) :
                /\ listing_analysis[properties_df[i].address].crime_impact = NullText
                /\ listing_analysis[properties_df[i].address].analyzed_at = "earlier"
          /\ \A i \in Scored : scores[i] = MinusOne

\* C24: update_listing_analysis never changes the crime_impact of a listing
\* that has a non-NULL crime_impact, and a second run over the same incidents
\* and listings changes no row: its candidates are listings the first run
\* left unwritten, and they score -1 again.
C24_SecondRunIdle == []SecondRunState /\ [][SecondRunStep]_vars

\* A second run is over that scored a candidate again; the first run had
\* written another listing.
C24_Witness ==
    /\ runs = 2
    /\ pc = "done"
    /\ \E i \in Scored : scores[i] = MinusOne
    /\ Written # {}

-----------------------------------------------------------------------------
(* C25: the score is monotone in added incidents                            *)

\* The frame with one more incident r.
WithIncident(df, r) == df (+) SetToBag({r})

\* The score of property i on the loaded incidents and one more incident r.
ScoreWith(i, r) ==
    calculate_crime_impact(properties_df[i].latitude, properties_df[i].longitude,
                           WithIncident(crimes_df, r)).score

InImmediate(i, r) ==
    Abs(r.latitude - properties_df[i].latitude) * 4 <= UnitsPerMile

InGeneralOnly(i, r) ==
    /\ ~InImmediate(i, r)
    /\ Abs(r.latitude - properties_df[i].latitude) <= 2 * UnitsPerMile

\* The property the scoring loop has just scored.
JustScored == IF pc = "score" /\ scores # <<>> THEN {Len(scores)} ELSE {}

\* C25: for a property whose score is not -1, one more incident within the
\* immediate radius does not lower the score, and one more incident within
\* the general radius but outside the immediate radius does not raise it.
C25_Monotone ==
    \A i \in JustScored :
        scores[i] # MinusOne =>
            \A r \in CrimeRows :
                /\ InImmediate(i, r) => RatGe(ScoreWith(i, r), scores[i])
                /\ InGeneralOnly(i, r) => RatLe(ScoreWith(i, r), scores[i])

\* A property is scored 0.5 and one more incident close by lifts it to 1.
C25_Witness ==
    \E i \in JustScored :
        /\ scores[i] = Half
        /\ \E r \in CrimeRows : InImmediate(i, r) /\ ScoreWith(i, r) = One

\* A property is scored 0.5 and one more incident farther out brings it
\* down to 0.
C25_WitnessGeneral ==
    \E i \in Scored :
        /\ scores[i] = Half
        /\ \E r \in CrimeRows : InGeneralOnly(i, r) /\ ScoreWith(i, r) = Zero


-----------------------------------------------------------------------------
(* C26: crime_data holds no duplicate (crime_date, latitude, longitude)     *)

\* C26: whatever files crimedataingest processes, among them a file twice and
\* files that overlap, no two rows of crime_data have the same (crime_date,
\* latitude, longitude); a file whose insert failed ends in the except clause
\* of process_file, the loop of main goes on, and at the end every file was
\* taken.
C26_NoDuplicateIncidents ==
    /\ \A r \in DOMAIN crime_data :
          /\ crime_data[r] = 1
          /\ \A q \in DOMAIN crime_data : IncidentKey(q) = IncidentKey(r) => q = r
    /\ ipc \in {"main", "file", "insert", "done"}
    /\ ingest_errors \subseteq 1..ingest_idx
    /\ ipc = "done" => ingest_idx = Len(ingest_files)

\* The insert of the first file failed on a stored incident, and the run
\* went on to insert the rows of the second file.
C26_Witness ==
    /\ ipc = "done"
    /\ ingest_errors = {1}
    /\ Len(ingest_files) = 2
    /\ \E r \in DOMAIN crime_data : r.crime_date = 90

-----------------------------------------------------------------------------
(* C27: what process_statistical_crime_clusters leaves in the database      *)

\* The clusters the loop has taken for which the LLM gave a text.
Analysed == {i \in 1..cluster_idx : llm_replies[i] # ""}

\* The rows of the tables that belong to the cluster taken as the i-th.
ResponseRowsOf(i) ==
    {k \in DOMAIN llm_responses :
        /\ llm_responses[k].crime_type = clusters_info[i].crime_type
        /\ llm_responses[k].response = llm_replies[i]}

ClusterRowsOf(i) ==
    {k \in DOMAIN crime_analysis :
        /\ crime_analysis[k].crime_type = upper(clusters_info[i].crime_type)
        /\ crime_analysis[k].incident_count = clusters_info[i].count
        /\ crime_analysis[k].latitude = clusters_info[i].center_lat
        /\ crime_analysis[k].cluster_description = llm_replies[i]}

\* Every analysed cluster has its record in crime_analysis, the table holds
\* no other row, and every cluster taken has at least `threshold` incidents.
ClusterRecordsStored ==
    /\ \A i \in Analysed : ClusterRowsOf(i) # {}
    /\ Len(crime_analysis) = Cardinality(Analysed)
    /\ \A i \in DOMAIN clusters_info : clusters_info[i].count >= threshold

\* After each insert llm_responses holds the response of the cluster
\* analysed last and nothing else.
OnlyLastResponseKept ==
    Analysed # {} =>
        /\ Len(llm_responses) = 1
        /\ LET last == CHOOSE i \in Analysed : \A j \in Analysed : j <= i
           IN  /\ llm_responses[1].crime_type = clusters_info[last].crime_type
               /\ llm_responses[1].response = llm_replies[last]

\* C27: when the run has finished, every cluster of at least `threshold`
\* incidents for which the LLM gave a text has its row with the raw response
\* in llm_responses and its record in crime_analysis; empty responses and
\* smaller groups add no row.
C27_AnalysesStored ==
    apc = "done" =>
        /\ ClusterRecordsStored
        /\ \A i \in Analysed : ResponseRowsOf(i) # {}
        /\ Len(llm_responses) >= Cardinality(Analysed)

-----------------------------------------------------------------------------
(* C28: run_analysis avoids duplicate analyses                              *)

MarketLabels == {"Good deal", "Average deal", "Bad deal"}

\* The address of the listing taken as the i-th had a row when it was taken:
\* a row of an earlier run, or the row of a listing taken before it.
HadAnalysis(i) ==
    \/ \E k \in DOMAIN listing_analysis :
          /\ listing_analysis[k].address = listing_log[i].address
          /\ listing_analysis[k].analyzed_at = "earlier"
    \/ \E j \in 1..(i - 1) :
          /\ listing_log[j].address = listing_log[i].address
          /\ listing_log[j].inserted

NoDuplicateAnalyses ==
    /\ \A j, k \in DOMAIN listing_analysis :
          listing_analysis[j].address = listing_analysis[k].address => j = k
    /\ \A i \in DOMAIN listing_log :
          /\ HadAnalysis(i) =>
                /\ listing_log[i].step = "exists"
                /\ listing_log[i].requests = <<>>
                /\ ~listing_log[i].inserted
          /\ listing_log[i].inserted =>
                /\ listing_log[i].assessment \in MarketLabels
                /\ ~isna(listing_log[i].latitude)
                /\ ~isna(listing_log[i].longitude)
                /\ \E k \in DOMAIN listing_analysis :
                      /\ listing_analysis[k].address = listing_log[i].address
                      /\ listing_analysis[k].market_exceptionality =
                             listing_log[i].assessment
                      /\ listing_analysis[k].analyzed_at = "now"
    /\ Cardinality({k \in DOMAIN listing_analysis :
                       listing_analysis[k].analyzed_at = "now"})
           = Cardinality({i \in DOMAIN listing_log : listing_log[i].inserted})

\* A step leaves the stored rows as they are and adds at most one row.
StoredRowsKept ==
    /\ Len(listing_analysis') \in {Len(listing_analysis), Len(listing_analysis) + 1}
    /\ \A k \in DOMAIN listing_analysis : listing_analysis'[k] = listing_analysis[k]

-----------------------------------------------------------------------------
(* C30: get_market_assessment makes at most three requests                  *)

\* The requests of one call of get_market_assessment and what it returned.
AssessmentRule(requests, assessment) ==
    LET n == Len(requests)
    IN  /\ n \in 1..3
        /\ \A k \in 1..(n - 1) : ~requests[k].ok
        /\ n < 3 => requests[n].ok
        /\ ~requests[n].ok => assessment = "None"
        /\ requests[n].ok =>
              LET said == {label \in MarketLabels :
                              Contains(lower(words(requests[n].text)),
                                       lower(words(label)))}
              IN  /\ said = {} => assessment = "None"
                  /\ said # {} => assessment \in said

RequestsState ==
    /\ Len(attempt_log) <= 3
    /\ mpc = "request" =>
          /\ Len(attempt_log) < 3
          /\ \A k \in DOMAIN attempt_log : ~attempt_log[k].ok
    /\ \A i \in DOMAIN listing_log :
          IF listing_log[i].step = "assessed"
          THEN AssessmentRule(listing_log[i].requests, listing_log[i].assessment)
          ELSE listing_log[i].requests = <<>>

\* A request is made only inside get_market_assessment, one at a time.
RequestsStep ==
    attempt_log' # attempt_log =>
        \/ attempt_log' = <<>> /\ mpc = "next"
        \/ /\ mpc = "request"
           /\ Len(attempt_log') = Len(attempt_log) + 1
           /\ SubSeq(attempt_log', 1, Len(attempt_log)) = attempt_log

\* C30: get_market_assessment makes at most 3 requests for a listing, makes
\* another one only after a failed one, stops at the first that completes,
\* and returns None when all 3 failed or when the reply has none of the three
\* phrases; every call returns.
C30_AtMostThreeRequests ==
    /\ []RequestsState
    /\ [][RequestsStep]_vars
    /\ [](mpc = "request" => <>(mpc # "request"))

\* One listing of a run got no assessment after three failed requests, and
\* another was classified by its second request.
C30_Witness ==
    /\ \E i \in DOMAIN listing_log :
          /\ Len(listing_log[i].requests) = 3
          /\ ~listing_log[i].requests[3].ok
    /\ \E i \in DOMAIN listing_log :
          /\ Len(listing_log[i].requests) = 2
          /\ listing_log[i].assessment = "Bad deal"

-----------------------------------------------------------------------------
(* C29: who carries 'Top Pick' after update_top_picks                       *)

MeetsCriteria(a) ==
    /\ is_good_market(listing_analysis[a])
    /\ is_low_crime(listing_analysis[a])

\* What a run writes: NULL for a selected row that does not meet the
\* criteria, 'Top Pick' only for a row that meets them and whose reply does
\* not contain 'not top pick'.
PicksWrittenRight ==
    \A i \in DOMAIN pick_log :
        LET e == pick_log[i]
            refused == Contains(lower(words(e.text)), words("not top pick"))
        IN  /\ ~e.qualified => listing_analysis[e.address].top_pick = NullText
            /\ listing_analysis[e.address].top_pick = "Top Pick" =>
                  e.qualified /\ e.kind = "reply" /\ ~refused
            /\ e.qualified /\ e.kind = "reply" /\ refused =>
                  listing_analysis[e.address].top_pick = NullText

\* C29: when a run of update_top_picks is over, no listing that fails the
\* basic criteria (market_exceptionality with 'good', crime_impact with 'low
\* crime impact') carries top_pick = 'Top Pick'.
C29_NoStaleTopPick ==
    tpc \in {"done", "returned"} =>
        \A a \in DOMAIN listing_analysis :
            ~MeetsCriteria(a) => listing_analysis[a].top_pick # "Top Pick"

\* In the first run, on a table without top picks, the claim holds.
FirstRunNoStaleTopPick == pick_runs = 1 => C29_NoStaleTopPick

=============================================================================
